---- MODULE Spec2Model ----
(***************************************************************************)
(* The JSON-RPC client of src/client/__init__.py: the Client operations    *)
(* (one per remote method) and the HTTP transport HttpClient.call.         *)
(*                                                                         *)
(* JSON text is a sequence of tokens; Python values are tagged records.    *)
(* json.dumps and json.loads are modelled by what they do (a serializer    *)
(* and a recursive-descent parser over tokens), not as each other's        *)
(* inverse by definition.                                                  *)
(***************************************************************************)
EXTENDS Integers, Sequences, FiniteSets, TLC

VARIABLES url, token, pc, op, args, method_name, params, wire, posts,
          http_resp, steps, call_outcome, op_outcome,
          transport_calls, post_calls, threads, repr_text, script

vars == <<url, token, pc, op, args, method_name, params, wire, posts,
          http_resp, steps, call_outcome, op_outcome,
          transport_calls, post_calls, threads, repr_text, script>>

(***************************************************************************)
(* Python values, as json.loads produces them and json.dumps accepts them. *)
(***************************************************************************)
PyNone == [t |-> "null"]
PyBool(b) == [t |-> "bool", b |-> b]
PyInt(n) == [t |-> "int", n |-> n]
\* a float with one decimal digit: PyFloat(5) is 0.5
PyFloat(tenths) == [t |-> "float", n |-> tenths]
PyStr(s) == [t |-> "str", s |-> s]
PyList(items) == [t |-> "list", items |-> items]
\* a dict keeps insertion order; its keys are distinct
PyDict(keys, vals) == [t |-> "dict", keys |-> keys, vals |-> vals]
\* an instance of a pydantic model class of .definitions, holding its JSON form
PyModel(type, v) == [t |-> "model", type |-> type, v |-> v]

(***************************************************************************)
(* JSON text: tokens.                                                      *)
(***************************************************************************)
P(s) == [k |-> "p", s |-> s, n |-> 0]
Lit(s) == [k |-> "lit", s |-> s, n |-> 0]
IntTok(n) == [k |-> "int", s |-> "", n |-> n]
RealTok(n) == [k |-> "real", s |-> "", n |-> n]
StrTok(s) == [k |-> "str", s |-> s, n |-> 0]
\* text that is no JSON token at all (an HTML page, a bare word)
Junk(s) == [k |-> "junk", s |-> s, n |-> 0]

Index(seq, x) == IF \E i \in 1..Len(seq) : seq[i] = x
                 THEN CHOOSE i \in 1..Len(seq) : seq[i] = x
                 ELSE 0

\* dict.get(key): the value, or None when the key is absent
DictGet(d, key) == LET i == Index(d.keys, key)
                   IN  IF i = 0 THEN PyNone ELSE d.vals[i]

DictHas(d, key) == Index(d.keys, key) # 0

\* d[key] = v on an insertion-ordered dict: a repeated key keeps its place
DictSet(keys, vals, key, v) ==
    LET i == Index(keys, key)
    IN  IF i = 0
        THEN [keys |-> Append(keys, key), vals |-> Append(vals, v)]
        ELSE [keys |-> keys, vals |-> [vals EXCEPT ![i] = v]]

(***************************************************************************)
(* json.dumps                                                              *)
(***************************************************************************)
RECURSIVE Dumps(_)
RECURSIVE DumpItems(_, _)
RECURSIVE DumpMembers(_, _, _)

DumpItems(items, i) ==
    IF i > Len(items) THEN <<>>
    ELSE (IF i > 1 THEN <<P(",")>> ELSE <<>>)
         \o Dumps(items[i]) \o DumpItems(items, i + 1)

DumpMembers(keys, vals, i) ==
    IF i > Len(keys) THEN <<>>
    ELSE (IF i > 1 THEN <<P(",")>> ELSE <<>>)
         \o <<StrTok(keys[i]), P(":")>> \o Dumps(vals[i])
         \o DumpMembers(keys, vals, i + 1)

Dumps(v) ==
    CASE v.t = "null"  -> <<Lit("null")>>
      [] v.t = "bool"  -> <<Lit(IF v.b THEN "true" ELSE "false")>>
      [] v.t = "int"   -> <<IntTok(v.n)>>
      [] v.t = "float" -> <<RealTok(v.n)>>
      [] v.t = "str"   -> <<StrTok(v.s)>>
      [] v.t = "list"  -> <<P("[")>> \o DumpItems(v.items, 1) \o <<P("]")>>
      [] v.t = "dict"  -> <<P("{")>> \o DumpMembers(v.keys, v.vals, 1) \o <<P("}")>>

(***************************************************************************)
(* json.loads: a recursive-descent parser. A parse step answers            *)
(* [ok, v, next]: the value read and the position after it.                *)
(***************************************************************************)
ParseFail == [ok |-> FALSE, v |-> PyNone, next |-> 0]
ParseOk(v, next) == [ok |-> TRUE, v |-> v, next |-> next]

IsP(toks, i, s) == i <= Len(toks) /\ toks[i].k = "p" /\ toks[i].s = s

RECURSIVE ParseValue(_, _)
RECURSIVE ParseItems(_, _, _)
RECURSIVE ParseMembers(_, _, _, _)

ParseItems(toks, i, acc) ==
    LET r == ParseValue(toks, i)
    IN  IF ~r.ok THEN ParseFail
        ELSE IF IsP(toks, r.next, ",")
             THEN ParseItems(toks, r.next + 1, Append(acc, r.v))
        ELSE IF IsP(toks, r.next, "]")
             THEN ParseOk(PyList(Append(acc, r.v)), r.next + 1)
        ELSE ParseFail

ParseMembers(toks, i, keys, vals) ==
    IF ~(i + 1 <= Len(toks) /\ toks[i].k = "str" /\ IsP(toks, i + 1, ":"))
    THEN ParseFail
    ELSE LET r == ParseValue(toks, i + 2)
             d == DictSet(keys, vals, toks[i].s, r.v)
         IN  IF ~r.ok THEN ParseFail
             ELSE IF IsP(toks, r.next, ",")
                  THEN ParseMembers(toks, r.next + 1, d.keys, d.vals)
             ELSE IF IsP(toks, r.next, "}")
                  THEN ParseOk(PyDict(d.keys, d.vals), r.next + 1)
             ELSE ParseFail

ParseValue(toks, i) ==
    IF i > Len(toks) THEN ParseFail
    ELSE LET tk == toks[i]
         IN  CASE tk.k = "lit" /\ tk.s = "null"  -> ParseOk(PyNone, i + 1)
               [] tk.k = "lit" /\ tk.s = "true"  -> ParseOk(PyBool(TRUE), i + 1)
               [] tk.k = "lit" /\ tk.s = "false" -> ParseOk(PyBool(FALSE), i + 1)
               [] tk.k = "int"  -> ParseOk(PyInt(tk.n), i + 1)
               [] tk.k = "real" -> ParseOk(PyFloat(tk.n), i + 1)
               [] tk.k = "str"  -> ParseOk(PyStr(tk.s), i + 1)
               [] IsP(toks, i, "[") ->
                    IF IsP(toks, i + 1, "]") THEN ParseOk(PyList(<<>>), i + 2)
                    ELSE ParseItems(toks, i + 1, <<>>)
               [] IsP(toks, i, "{") ->
                    IF IsP(toks, i + 1, "}") THEN ParseOk(PyDict(<<>>, <<>>), i + 2)
                    ELSE ParseMembers(toks, i + 1, <<>>, <<>>)
               [] OTHER -> ParseFail

\* json.loads(text): [ok, v]; not ok is the JSONDecodeError
Loads(text) ==
    LET r == ParseValue(text, 1)
    IN  IF r.ok /\ r.next = Len(text) + 1
        THEN [ok |-> TRUE, v |-> r.v]
        ELSE [ok |-> FALSE, v |-> PyNone]

(***************************************************************************)
(* The operations of class Client, lines 13-234: name, remote method, the  *)
(* declared argument types, the list passed to self.call (which argument   *)
(* each element encodes, and how), the declared result and its decoder.    *)
(***************************************************************************)
Catalog == <<
    [name |-> "AuthNew", method |-> "Filecoin.AuthNew", args |-> <<"AuthNewParams">>,
     params |-> <<[arg |-> 1, enc |-> "model_dump_json"]>>,
     ret |-> "VecU8LotusJson", dec |-> "model_validate_json"],
    [name |-> "AuthVerify", method |-> "Filecoin.AuthVerify", args |-> <<"str">>,
     params |-> <<[arg |-> 1, enc |-> "json.dumps"]>>,
     ret |-> "AllocStringString", dec |-> "model_validate_json"],
    [name |-> "BeaconGetEntry", method |-> "Filecoin.BeaconGetEntry", args |-> <<"int">>,
     params |-> <<[arg |-> 1, enc |-> "json.dumps"]>>,
     ret |-> "BeaconEntryLotusJson", dec |-> "model_validate_json"],
    [name |-> "ChainGetMessage", method |-> "Filecoin.ChainGetMessage", args |-> <<"CidLotusJsonGenericFor64">>,
     params |-> <<[arg |-> 1, enc |-> "model_dump_json"]>>,
     ret |-> "MessageLotusJson", dec |-> "model_validate_json"],
    [name |-> "ChainGetParentMessages", method |-> "Filecoin.ChainGetParentMessages", args |-> <<"CidLotusJsonGenericFor64">>,
     params |-> <<[arg |-> 1, enc |-> "model_dump_json"]>>,
     ret |-> "ForestFilecoinRpcMethodsChainApiMessage", dec |-> "model_validate_json"],
    [name |-> "ChainGetParentReceipts", method |-> "Filecoin.ChainGetParentReceipts", args |-> <<"CidLotusJsonGenericFor64">>,
     params |-> <<[arg |-> 1, enc |-> "model_dump_json"]>>,
     ret |-> "ForestFilecoinRpcMethodsChainApiReceipt", dec |-> "model_validate_json"],
    [name |-> "ChainGetMessagesInTipset", method |-> "Filecoin.ChainGetMessagesInTipset", args |-> <<"ForestFilecoinLotusJsonCidCidLotusJsonGeneric64">>,
     params |-> <<[arg |-> 1, enc |-> "model_dump_json"]>>,
     ret |-> "ForestFilecoinRpcMethodsChainApiMessage", dec |-> "model_validate_json"],
    [name |-> "ChainExport", method |-> "Filecoin.ChainExport", args |-> <<"ChainExportParams">>,
     params |-> <<[arg |-> 1, enc |-> "model_dump_json"]>>,
     ret |-> "typing.Any", dec |-> "json.loads"],
    [name |-> "ChainReadObj", method |-> "Filecoin.ChainReadObj", args |-> <<"CidLotusJsonGenericFor64">>,
     params |-> <<[arg |-> 1, enc |-> "model_dump_json"]>>,
     ret |-> "VecU8LotusJson", dec |-> "model_validate_json"],
    [name |-> "ChainHasObj", method |-> "Filecoin.ChainHasObj", args |-> <<"CidLotusJsonGenericFor64">>,
     params |-> <<[arg |-> 1, enc |-> "model_dump_json"]>>,
     ret |-> "bool", dec |-> "json.loads"],
    [name |-> "ChainGetBlockMessages", method |-> "Filecoin.ChainGetBlockMessages", args |-> <<"CidLotusJsonGenericFor64">>,
     params |-> <<[arg |-> 1, enc |-> "model_dump_json"]>>,
     ret |-> "BlockMessages", dec |-> "model_validate_json"],
    [name |-> "ChainGetPath", method |-> "Filecoin.ChainGetPath", args |-> <<"NonEmptyArrayOfCidLotusJsonGenericFor64", "NonEmptyArrayOfCidLotusJsonGenericFor64">>,
     params |-> <<[arg |-> 1, enc |-> "model_dump_json"], [arg |-> 2, enc |-> "model_dump_json"]>>,
     ret |-> "ForestFilecoinRpcMethodsChainPathChangeForestFilecoinBlocksTipsetLotusJsonTipsetLotusJson", dec |-> "model_validate_json"],
    [name |-> "ChainGetTipSetByHeight", method |-> "Filecoin.ChainGetTipSetByHeight", args |-> <<"int", "ForestFilecoinLotusJsonCidCidLotusJsonGeneric64">>,
     params |-> <<[arg |-> 1, enc |-> "json.dumps"], [arg |-> 2, enc |-> "model_dump_json"]>>,
     ret |-> "TipsetLotusJson", dec |-> "model_validate_json"],
    [name |-> "ChainGetTipSetAfterHeight", method |-> "Filecoin.ChainGetTipSetAfterHeight", args |-> <<"int", "ForestFilecoinLotusJsonCidCidLotusJsonGeneric64">>,
     params |-> <<[arg |-> 1, enc |-> "json.dumps"], [arg |-> 2, enc |-> "model_dump_json"]>>,
     ret |-> "TipsetLotusJson", dec |-> "model_validate_json"],
    [name |-> "ChainGetGenesis", method |-> "Filecoin.ChainGetGenesis", args |-> <<>>,
     params |-> <<>>,
     ret |-> "typing.Any", dec |-> "json.loads"],
    [name |-> "ChainHead", method |-> "Filecoin.ChainHead", args |-> <<>>,
     params |-> <<>>,
     ret |-> "TipsetLotusJson", dec |-> "model_validate_json"],
    [name |-> "ChainGetBlock", method |-> "Filecoin.ChainGetBlock", args |-> <<"CidLotusJsonGenericFor64">>,
     params |-> <<[arg |-> 1, enc |-> "model_dump_json"]>>,
     ret |-> "ForestFilecoinLotusJsonBlockHeaderBlockHeaderLotusJson", dec |-> "model_validate_json"],
    [name |-> "ChainGetTipSet", method |-> "Filecoin.ChainGetTipSet", args |-> <<"ForestFilecoinLotusJsonCidCidLotusJsonGeneric64">>,
     params |-> <<[arg |-> 1, enc |-> "model_dump_json"]>>,
     ret |-> "TipsetLotusJson", dec |-> "model_validate_json"],
    [name |-> "ChainSetHead", method |-> "Filecoin.ChainSetHead", args |-> <<"ForestFilecoinLotusJsonCidCidLotusJsonGeneric64">>,
     params |-> <<[arg |-> 1, enc |-> "model_dump_json"]>>,
     ret |-> "None", dec |-> "json.loads"],
    [name |-> "ChainGetMinBaseFee", method |-> "Filecoin.ChainGetMinBaseFee", args |-> <<"int">>,
     params |-> <<[arg |-> 1, enc |-> "json.dumps"]>>,
     ret |-> "str", dec |-> "json.loads"],
    [name |-> "ChainTipSetWeight", method |-> "Filecoin.ChainTipSetWeight", args |-> <<"ForestFilecoinLotusJsonCidCidLotusJsonGeneric64">>,
     params |-> <<[arg |-> 1, enc |-> "model_dump_json"]>>,
     ret |-> "String", dec |-> "model_validate_json"],
    [name |-> "Session", method |-> "Filecoin.Session", args |-> <<>>,
     params |-> <<>>,
     ret |-> "str", dec |-> "json.loads"],
    [name |-> "Version", method |-> "Filecoin.Version", args |-> <<>>,
     params |-> <<>>,
     ret |-> "PublicVersion", dec |-> "model_validate_json"],
    [name |-> "Shutdown", method |-> "Filecoin.Shutdown", args |-> <<>>,
     params |-> <<>>,
     ret |-> "None", dec |-> "json.loads"],
    [name |-> "StartTime", method |-> "Filecoin.StartTime", args |-> <<>>,
     params |-> <<>>,
     ret |-> "str", dec |-> "json.loads"],
    [name |-> "GasEstimateGasLimit", method |-> "Filecoin.GasEstimateGasLimit", args |-> <<"MessageLotusJson", "ForestFilecoinLotusJsonCidCidLotusJsonGeneric64">>,
     params |-> <<[arg |-> 1, enc |-> "model_dump_json"], [arg |-> 2, enc |-> "model_dump_json"]>>,
     ret |-> "int", dec |-> "json.loads"],
    [name |-> "GasEstimateMessageGas", method |-> "Filecoin.GasEstimateMessageGas", args |-> <<"MessageLotusJson", "typing.Any", "ForestFilecoinLotusJsonCidCidLotusJsonGeneric64">>,
     params |-> <<[arg |-> 1, enc |-> "model_dump_json"], [arg |-> 2, enc |-> "json.dumps"], [arg |-> 3, enc |-> "model_dump_json"]>>,
     ret |-> "MessageLotusJson", dec |-> "model_validate_json"],
    [name |-> "GasEstimateFeeCap", method |-> "Filecoin.GasEstimateFeeCap", args |-> <<"MessageLotusJson", "int", "ForestFilecoinLotusJsonCidCidLotusJsonGeneric64">>,
     params |-> <<[arg |-> 1, enc |-> "model_dump_json"], [arg |-> 2, enc |-> "json.dumps"], [arg |-> 3, enc |-> "model_dump_json"]>>,
     ret |-> "str", dec |-> "json.loads"],
    [name |-> "GasEstimateGasPremium", method |-> "Filecoin.GasEstimateGasPremium", args |-> <<"int", "String", "int", "ForestFilecoinLotusJsonCidCidLotusJsonGeneric64">>,
     params |-> <<[arg |-> 1, enc |-> "json.dumps"], [arg |-> 2, enc |-> "model_dump_json"], [arg |-> 3, enc |-> "json.dumps"], [arg |-> 4, enc |-> "model_dump_json"]>>,
     ret |-> "str", dec |-> "json.loads"],
    [name |-> "MpoolGetNonce", method |-> "Filecoin.MpoolGetNonce", args |-> <<"String">>,
     params |-> <<[arg |-> 1, enc |-> "model_dump_json"]>>,
     ret |-> "int", dec |-> "json.loads"],
    [name |-> "MpoolPending", method |-> "Filecoin.MpoolPending", args |-> <<"ForestFilecoinLotusJsonCidCidLotusJsonGeneric64">>,
     params |-> <<[arg |-> 1, enc |-> "model_dump_json"]>>,
     ret |-> "ForestFilecoinLotusJsonSignedMessageSignedMessageLotusJson", dec |-> "model_validate_json"],
    [name |-> "MpoolSelect", method |-> "Filecoin.MpoolSelect", args |-> <<"ForestFilecoinLotusJsonCidCidLotusJsonGeneric64", "float">>,
     params |-> <<[arg |-> 1, enc |-> "model_dump_json"], [arg |-> 2, enc |-> "json.dumps"]>>,
     ret |-> "ForestFilecoinLotusJsonSignedMessageSignedMessageLotusJson", dec |-> "model_validate_json"],
    [name |-> "MpoolPush", method |-> "Filecoin.MpoolPush", args |-> <<"ForestFilecoinLotusJsonSignedMessageSignedMessageLotusJson">>,
     params |-> <<[arg |-> 1, enc |-> "model_dump_json"]>>,
     ret |-> "CidLotusJsonGenericFor64", dec |-> "model_validate_json"],
    [name |-> "MpoolPushMessage", method |-> "Filecoin.MpoolPushMessage", args |-> <<"MessageLotusJson", "typing.Any">>,
     params |-> <<[arg |-> 1, enc |-> "model_dump_json"], [arg |-> 2, enc |-> "json.dumps"]>>,
     ret |-> "ForestFilecoinLotusJsonSignedMessageSignedMessageLotusJson", dec |-> "model_validate_json"],
    [name |-> "NetAddrsListen", method |-> "Filecoin.NetAddrsListen", args |-> <<>>,
     params |-> <<>>,
     ret |-> "AddrInfo", dec |-> "model_validate_json"],
    [name |-> "NetPeers", method |-> "Filecoin.NetPeers", args |-> <<>>,
     params |-> <<>>,
     ret |-> "AddrInfo", dec |-> "model_validate_json"],
    [name |-> "NetListening", method |-> "Filecoin.NetListening", args |-> <<>>,
     params |-> <<>>,
     ret |-> "bool", dec |-> "json.loads"],
    [name |-> "NetInfo", method |-> "Forest.NetInfo", args |-> <<>>,
     params |-> <<>>,
     ret |-> "NetInfoResult", dec |-> "model_validate_json"],
    [name |-> "NetConnect", method |-> "Filecoin.NetConnect", args |-> <<"AddrInfo">>,
     params |-> <<[arg |-> 1, enc |-> "model_dump_json"]>>,
     ret |-> "None", dec |-> "json.loads"],
    [name |-> "NetDisconnect", method |-> "Filecoin.NetDisconnect", args |-> <<"str">>,
     params |-> <<[arg |-> 1, enc |-> "json.dumps"]>>,
     ret |-> "None", dec |-> "json.loads"],
    [name |-> "NetAgentVersion", method |-> "Filecoin.NetAgentVersion", args |-> <<"str">>,
     params |-> <<[arg |-> 1, enc |-> "json.dumps"]>>,
     ret |-> "str", dec |-> "json.loads"],
    [name |-> "NetAutoNatStatus", method |-> "Filecoin.NetAutoNatStatus", args |-> <<>>,
     params |-> <<>>,
     ret |-> "NatStatusResult", dec |-> "model_validate_json"],
    [name |-> "NetVersion", method |-> "Filecoin.NetVersion", args |-> <<>>,
     params |-> <<>>,
     ret |-> "str", dec |-> "json.loads"],
    [name |-> "MinerGetBaseInfo", method |-> "Filecoin.MinerGetBaseInfo", args |-> <<"String", "int", "ForestFilecoinLotusJsonCidCidLotusJsonGeneric64">>,
     params |-> <<[arg |-> 1, enc |-> "model_dump_json"], [arg |-> 2, enc |-> "json.dumps"], [arg |-> 3, enc |-> "model_dump_json"]>>,
     ret |-> "typing.Any", dec |-> "json.loads"],
    [name |-> "StateCall", method |-> "Filecoin.StateCall", args |-> <<"MessageLotusJson", "ForestFilecoinLotusJsonCidCidLotusJsonGeneric64">>,
     params |-> <<[arg |-> 1, enc |-> "model_dump_json"], [arg |-> 2, enc |-> "model_dump_json"]>>,
     ret |-> "ApiInvocResult", dec |-> "model_validate_json"],
    [name |-> "StateGetBeaconEntry", method |-> "Filecoin.StateGetBeaconEntry", args |-> <<"int">>,
     params |-> <<[arg |-> 1, enc |-> "json.dumps"]>>,
     ret |-> "BeaconEntryLotusJson", dec |-> "model_validate_json"],
    [name |-> "StateListMessages", method |-> "Filecoin.StateListMessages", args |-> <<"MessageFilter", "ForestFilecoinLotusJsonCidCidLotusJsonGeneric64", "int">>,
     params |-> <<[arg |-> 1, enc |-> "model_dump_json"], [arg |-> 2, enc |-> "model_dump_json"], [arg |-> 3, enc |-> "json.dumps"]>>,
     ret |-> "ForestFilecoinLotusJsonCidCidLotusJsonGeneric64", dec |-> "model_validate_json"],
    [name |-> "StateNetworkName", method |-> "Filecoin.StateNetworkName", args |-> <<>>,
     params |-> <<>>,
     ret |-> "str", dec |-> "json.loads"],
    [name |-> "StateReplay", method |-> "Filecoin.StateReplay", args |-> <<"CidLotusJsonGenericFor64", "ForestFilecoinLotusJsonCidCidLotusJsonGeneric64">>,
     params |-> <<[arg |-> 1, enc |-> "model_dump_json"], [arg |-> 2, enc |-> "model_dump_json"]>>,
     ret |-> "InvocResult", dec |-> "model_validate_json"],
    [name |-> "StateSectorGetInfo", method |-> "Filecoin.StateSectorGetInfo", args |-> <<"String", "int", "ForestFilecoinLotusJsonCidCidLotusJsonGeneric64">>,
     params |-> <<[arg |-> 1, enc |-> "model_dump_json"], [arg |-> 2, enc |-> "json.dumps"], [arg |-> 3, enc |-> "model_dump_json"]>>,
     ret |-> "SectorOnChainInfo", dec |-> "model_validate_json"],
    [name |-> "StateSectorPreCommitInfo", method |-> "Filecoin.StateSectorPreCommitInfo", args |-> <<"String", "int", "ForestFilecoinLotusJsonCidCidLotusJsonGeneric64">>,
     params |-> <<[arg |-> 1, enc |-> "model_dump_json"], [arg |-> 2, enc |-> "json.dumps"], [arg |-> 3, enc |-> "model_dump_json"]>>,
     ret |-> "SectorPreCommitOnChainInfo", dec |-> "model_validate_json"],
    [name |-> "StateAccountKey", method |-> "Filecoin.StateAccountKey", args |-> <<"String", "ForestFilecoinLotusJsonCidCidLotusJsonGeneric64">>,
     params |-> <<[arg |-> 1, enc |-> "model_dump_json"], [arg |-> 2, enc |-> "model_dump_json"]>>,
     ret |-> "String", dec |-> "model_validate_json"],
    [name |-> "StateLookupID", method |-> "Filecoin.StateLookupID", args |-> <<"String", "ForestFilecoinLotusJsonCidCidLotusJsonGeneric64">>,
     params |-> <<[arg |-> 1, enc |-> "model_dump_json"], [arg |-> 2, enc |-> "model_dump_json"]>>,
     ret |-> "String", dec |-> "model_validate_json"],
    [name |-> "StateGetActor", method |-> "Filecoin.StateGetActor", args |-> <<"String", "ForestFilecoinLotusJsonCidCidLotusJsonGeneric64">>,
     params |-> <<[arg |-> 1, enc |-> "model_dump_json"], [arg |-> 2, enc |-> "model_dump_json"]>>,
     ret |-> "typing.Any", dec |-> "json.loads"],
    [name |-> "StateMinerInfo", method |-> "Filecoin.StateMinerInfo", args |-> <<"String", "ForestFilecoinLotusJsonCidCidLotusJsonGeneric64">>,
     params |-> <<[arg |-> 1, enc |-> "model_dump_json"], [arg |-> 2, enc |-> "model_dump_json"]>>,
     ret |-> "MinerInfoLotusJson", dec |-> "model_validate_json"],
    [name |-> "StateMinerActiveSectors", method |-> "Filecoin.StateMinerActiveSectors", args |-> <<"String", "ForestFilecoinLotusJsonCidCidLotusJsonGeneric64">>,
     params |-> <<[arg |-> 1, enc |-> "model_dump_json"], [arg |-> 2, enc |-> "model_dump_json"]>>,
     ret |-> "SectorOnChainInfo", dec |-> "model_validate_json"],
    [name |-> "StateMinerPartitions", method |-> "Filecoin.StateMinerPartitions", args |-> <<"String", "int", "ForestFilecoinLotusJsonCidCidLotusJsonGeneric64">>,
     params |-> <<[arg |-> 1, enc |-> "model_dump_json"], [arg |-> 2, enc |-> "json.dumps"], [arg |-> 3, enc |-> "model_dump_json"]>>,
     ret |-> "ForestFilecoinRpcTypesMinerPartitions", dec |-> "model_validate_json"],
    [name |-> "StateMinerSectors", method |-> "Filecoin.StateMinerSectors", args |-> <<"String", "typing.Any", "ForestFilecoinLotusJsonCidCidLotusJsonGeneric64">>,
     params |-> <<[arg |-> 1, enc |-> "model_dump_json"], [arg |-> 2, enc |-> "json.dumps"], [arg |-> 3, enc |-> "model_dump_json"]>>,
     ret |-> "SectorOnChainInfo", dec |-> "model_validate_json"],
    [name |-> "StateMinerSectorCount", method |-> "Filecoin.StateMinerSectorCount", args |-> <<"String", "ForestFilecoinLotusJsonCidCidLotusJsonGeneric64">>,
     params |-> <<[arg |-> 1, enc |-> "model_dump_json"], [arg |-> 2, enc |-> "model_dump_json"]>>,
     ret |-> "MinerSectors", dec |-> "model_validate_json"],
    [name |-> "StateMinerPower", method |-> "Filecoin.StateMinerPower", args |-> <<"String", "ForestFilecoinLotusJsonCidCidLotusJsonGeneric64">>,
     params |-> <<[arg |-> 1, enc |-> "model_dump_json"], [arg |-> 2, enc |-> "model_dump_json"]>>,
     ret |-> "MinerPowerLotusJson", dec |-> "model_validate_json"],
    [name |-> "StateMinerDeadlines", method |-> "Filecoin.StateMinerDeadlines", args |-> <<"String", "ForestFilecoinLotusJsonCidCidLotusJsonGeneric64">>,
     params |-> <<[arg |-> 1, enc |-> "model_dump_json"], [arg |-> 2, enc |-> "model_dump_json"]>>,
     ret |-> "ForestFilecoinRpcTypesApiDeadline", dec |-> "model_validate_json"],
    [name |-> "StateMinerProvingDeadline", method |-> "Filecoin.StateMinerProvingDeadline", args |-> <<"String", "ForestFilecoinLotusJsonCidCidLotusJsonGeneric64">>,
     params |-> <<[arg |-> 1, enc |-> "model_dump_json"], [arg |-> 2, enc |-> "model_dump_json"]>>,
     ret |-> "ApiDeadlineInfo", dec |-> "model_validate_json"],
    [name |-> "StateMinerFaults", method |-> "Filecoin.StateMinerFaults", args |-> <<"String", "ForestFilecoinLotusJsonCidCidLotusJsonGeneric64">>,
     params |-> <<[arg |-> 1, enc |-> "model_dump_json"], [arg |-> 2, enc |-> "model_dump_json"]>>,
     ret |-> "BitFieldLotusJson", dec |-> "model_validate_json"],
    [name |-> "StateMinerRecoveries", method |-> "Filecoin.StateMinerRecoveries", args |-> <<"String", "ForestFilecoinLotusJsonCidCidLotusJsonGeneric64">>,
     params |-> <<[arg |-> 1, enc |-> "model_dump_json"], [arg |-> 2, enc |-> "model_dump_json"]>>,
     ret |-> "BitFieldLotusJson", dec |-> "model_validate_json"],
    [name |-> "StateMinerAvailableBalance", method |-> "Filecoin.StateMinerAvailableBalance", args |-> <<"String", "ForestFilecoinLotusJsonCidCidLotusJsonGeneric64">>,
     params |-> <<[arg |-> 1, enc |-> "model_dump_json"], [arg |-> 2, enc |-> "model_dump_json"]>>,
     ret |-> "String", dec |-> "model_validate_json"],
    [name |-> "StateMinerInitialPledgeCollateral", method |-> "Filecoin.StateMinerInitialPledgeCollateral", args |-> <<"String", "SectorPreCommitInfo2", "ForestFilecoinLotusJsonCidCidLotusJsonGeneric64">>,
     params |-> <<[arg |-> 1, enc |-> "model_dump_json"], [arg |-> 2, enc |-> "model_dump_json"], [arg |-> 3, enc |-> "model_dump_json"]>>,
     ret |-> "String", dec |-> "model_validate_json"],
    [name |-> "StateGetReceipt", method |-> "Filecoin.StateGetReceipt", args |-> <<"CidLotusJsonGenericFor64", "ForestFilecoinLotusJsonCidCidLotusJsonGeneric64">>,
     params |-> <<[arg |-> 1, enc |-> "model_dump_json"], [arg |-> 2, enc |-> "model_dump_json"]>>,
     ret |-> "ReceiptLotusJson", dec |-> "model_validate_json"],
    [name |-> "StateGetRandomnessFromTickets", method |-> "Filecoin.StateGetRandomnessFromTickets", args |-> <<"int", "int", "VecU8LotusJson", "ForestFilecoinLotusJsonCidCidLotusJsonGeneric64">>,
     params |-> <<[arg |-> 1, enc |-> "json.dumps"], [arg |-> 2, enc |-> "json.dumps"], [arg |-> 3, enc |-> "model_dump_json"], [arg |-> 4, enc |-> "model_dump_json"]>>,
     ret |-> "VecU8LotusJson", dec |-> "model_validate_json"],
    [name |-> "StateGetRandomnessFromBeacon", method |-> "Filecoin.StateGetRandomnessFromBeacon", args |-> <<"int", "int", "VecU8LotusJson", "ForestFilecoinLotusJsonCidCidLotusJsonGeneric64">>,
     params |-> <<[arg |-> 1, enc |-> "json.dumps"], [arg |-> 2, enc |-> "json.dumps"], [arg |-> 3, enc |-> "model_dump_json"], [arg |-> 4, enc |-> "model_dump_json"]>>,
     ret |-> "VecU8LotusJson", dec |-> "model_validate_json"],
    [name |-> "StateReadState", method |-> "Filecoin.StateReadState", args |-> <<"String", "ForestFilecoinLotusJsonCidCidLotusJsonGeneric64">>,
     params |-> <<[arg |-> 1, enc |-> "model_dump_json"], [arg |-> 2, enc |-> "model_dump_json"]>>,
     ret |-> "ApiActorState", dec |-> "model_validate_json"],
    [name |-> "StateCirculatingSupply", method |-> "Filecoin.StateCirculatingSupply", args |-> <<"ForestFilecoinLotusJsonCidCidLotusJsonGeneric64">>,
     params |-> <<[arg |-> 1, enc |-> "model_dump_json"]>>,
     ret |-> "String", dec |-> "model_validate_json"],
    [name |-> "MsigGetAvailableBalance", method |-> "Filecoin.MsigGetAvailableBalance", args |-> <<"String", "ForestFilecoinLotusJsonCidCidLotusJsonGeneric64">>,
     params |-> <<[arg |-> 1, enc |-> "model_dump_json"], [arg |-> 2, enc |-> "model_dump_json"]>>,
     ret |-> "String", dec |-> "model_validate_json"],
    [name |-> "MsigGetPending", method |-> "Filecoin.MsigGetPending", args |-> <<"String", "ForestFilecoinLotusJsonCidCidLotusJsonGeneric64">>,
     params |-> <<[arg |-> 1, enc |-> "model_dump_json"], [arg |-> 2, enc |-> "model_dump_json"]>>,
     ret |-> "ForestFilecoinRpcTypesTransaction", dec |-> "model_validate_json"],
    [name |-> "StateVerifiedClientStatus", method |-> "Filecoin.StateVerifiedClientStatus", args |-> <<"String", "ForestFilecoinLotusJsonCidCidLotusJsonGeneric64">>,
     params |-> <<[arg |-> 1, enc |-> "model_dump_json"], [arg |-> 2, enc |-> "model_dump_json"]>>,
     ret |-> "typing.Any", dec |-> "json.loads"],
    [name |-> "StateVMCirculatingSupplyInternal", method |-> "Filecoin.StateVMCirculatingSupplyInternal", args |-> <<"ForestFilecoinLotusJsonCidCidLotusJsonGeneric64">>,
     params |-> <<[arg |-> 1, enc |-> "model_dump_json"]>>,
     ret |-> "CirculatingSupply", dec |-> "model_validate_json"],
    [name |-> "StateListMiners", method |-> "Filecoin.StateListMiners", args |-> <<"ForestFilecoinLotusJsonCidCidLotusJsonGeneric64">>,
     params |-> <<[arg |-> 1, enc |-> "model_dump_json"]>>,
     ret |-> "ForestFilecoinLotusJsonStringifyForestFilecoinShimAddressAddress", dec |-> "model_validate_json"],
    [name |-> "StateNetworkVersion", method |-> "Filecoin.StateNetworkVersion", args |-> <<"ForestFilecoinLotusJsonCidCidLotusJsonGeneric64">>,
     params |-> <<[arg |-> 1, enc |-> "model_dump_json"]>>,
     ret |-> "int", dec |-> "json.loads"],
    [name |-> "StateMarketBalance", method |-> "Filecoin.StateMarketBalance", args |-> <<"String", "ForestFilecoinLotusJsonCidCidLotusJsonGeneric64">>,
     params |-> <<[arg |-> 1, enc |-> "model_dump_json"], [arg |-> 2, enc |-> "model_dump_json"]>>,
     ret |-> "MarketBalance", dec |-> "model_validate_json"],
    [name |-> "StateMarketDeals", method |-> "Filecoin.StateMarketDeals", args |-> <<"ForestFilecoinLotusJsonCidCidLotusJsonGeneric64">>,
     params |-> <<[arg |-> 1, enc |-> "model_dump_json"]>>,
     ret |-> "typing.Any", dec |-> "json.loads"],
    [name |-> "StateDealProviderCollateralBounds", method |-> "Filecoin.StateDealProviderCollateralBounds", args |-> <<"int", "bool", "ForestFilecoinLotusJsonCidCidLotusJsonGeneric64">>,
     params |-> <<[arg |-> 1, enc |-> "json.dumps"], [arg |-> 2, enc |-> "json.dumps"], [arg |-> 3, enc |-> "model_dump_json"]>>,
     ret |-> "DealCollateralBounds", dec |-> "model_validate_json"],
    [name |-> "StateMarketStorageDeal", method |-> "Filecoin.StateMarketStorageDeal", args |-> <<"int", "ForestFilecoinLotusJsonCidCidLotusJsonGeneric64">>,
     params |-> <<[arg |-> 1, enc |-> "json.dumps"], [arg |-> 2, enc |-> "model_dump_json"]>>,
     ret |-> "ApiMarketDeal", dec |-> "model_validate_json"],
    [name |-> "StateWaitMsg", method |-> "Filecoin.StateWaitMsg", args |-> <<"CidLotusJsonGenericFor64", "int">>,
     params |-> <<[arg |-> 1, enc |-> "model_dump_json"], [arg |-> 2, enc |-> "json.dumps"]>>,
     ret |-> "MessageLookup", dec |-> "model_validate_json"],
    [name |-> "StateSearchMsg", method |-> "Filecoin.StateSearchMsg", args |-> <<"CidLotusJsonGenericFor64">>,
     params |-> <<[arg |-> 1, enc |-> "model_dump_json"]>>,
     ret |-> "MessageLookup", dec |-> "model_validate_json"],
    [name |-> "StateSearchMsgLimited", method |-> "Filecoin.StateSearchMsgLimited", args |-> <<"CidLotusJsonGenericFor64", "int">>,
     params |-> <<[arg |-> 1, enc |-> "model_dump_json"], [arg |-> 2, enc |-> "json.dumps"]>>,
     ret |-> "MessageLookup", dec |-> "model_validate_json"],
    [name |-> "StateFetchRoot", method |-> "Filecoin.StateFetchRoot", args |-> <<"CidLotusJsonGenericFor64", "typing.Any">>,
     params |-> <<[arg |-> 1, enc |-> "model_dump_json"], [arg |-> 2, enc |-> "json.dumps"]>>,
     ret |-> "str", dec |-> "json.loads"],
    [name |-> "StateMinerPreCommitDepositForPower", method |-> "Filecoin.StateMinerPreCommitDepositForPower", args |-> <<"String", "SectorPreCommitInfo2", "ForestFilecoinLotusJsonCidCidLotusJsonGeneric64">>,
     params |-> <<[arg |-> 1, enc |-> "model_dump_json"], [arg |-> 2, enc |-> "model_dump_json"], [arg |-> 3, enc |-> "model_dump_json"]>>,
     ret |-> "String", dec |-> "model_validate_json"],
    [name |-> "NodeStatus", method |-> "Filecoin.NodeStatus", args |-> <<>>,
     params |-> <<>>,
     ret |-> "NodeStatusResult", dec |-> "model_validate_json"],
    [name |-> "SyncCheckBad", method |-> "Filecoin.SyncCheckBad", args |-> <<"CidLotusJsonGenericFor64">>,
     params |-> <<[arg |-> 1, enc |-> "model_dump_json"]>>,
     ret |-> "str", dec |-> "json.loads"],
    [name |-> "SyncMarkBad", method |-> "Filecoin.SyncMarkBad", args |-> <<"CidLotusJsonGenericFor64">>,
     params |-> <<[arg |-> 1, enc |-> "model_dump_json"]>>,
     ret |-> "None", dec |-> "json.loads"],
    [name |-> "SyncState", method |-> "Filecoin.SyncState", args |-> <<>>,
     params |-> <<>>,
     ret |-> "RpcSyncState", dec |-> "model_validate_json"],
    [name |-> "SyncSubmitBlock", method |-> "Filecoin.SyncSubmitBlock", args |-> <<"GossipBlockLotusJson">>,
     params |-> <<[arg |-> 1, enc |-> "model_dump_json"]>>,
     ret |-> "None", dec |-> "json.loads"],
    [name |-> "WalletBalance", method |-> "Filecoin.WalletBalance", args |-> <<"String">>,
     params |-> <<[arg |-> 1, enc |-> "model_dump_json"]>>,
     ret |-> "String", dec |-> "model_validate_json"],
    [name |-> "WalletDefaultAddress", method |-> "Filecoin.WalletDefaultAddress", args |-> <<>>,
     params |-> <<>>,
     ret |-> "typing.Any", dec |-> "json.loads"],
    [name |-> "WalletExport", method |-> "Filecoin.WalletExport", args |-> <<"String">>,
     params |-> <<[arg |-> 1, enc |-> "model_dump_json"]>>,
     ret |-> "KeyInfoLotusJson", dec |-> "model_validate_json"],
    [name |-> "WalletHas", method |-> "Filecoin.WalletHas", args |-> <<"String">>,
     params |-> <<[arg |-> 1, enc |-> "model_dump_json"]>>,
     ret |-> "bool", dec |-> "json.loads"],
    [name |-> "WalletImport", method |-> "Filecoin.WalletImport", args |-> <<"KeyInfoLotusJson">>,
     params |-> <<[arg |-> 1, enc |-> "model_dump_json"]>>,
     ret |-> "String", dec |-> "model_validate_json"],
    [name |-> "WalletList", method |-> "Filecoin.WalletList", args |-> <<>>,
     params |-> <<>>,
     ret |-> "ForestFilecoinLotusJsonStringifyForestFilecoinShimAddressAddress", dec |-> "model_validate_json"],
    [name |-> "WalletNew", method |-> "Filecoin.WalletNew", args |-> <<"SignatureTypeLotusJson2">>,
     params |-> <<[arg |-> 1, enc |-> "model_dump_json"]>>,
     ret |-> "String", dec |-> "model_validate_json"],
    [name |-> "WalletSetDefault", method |-> "Filecoin.WalletSetDefault", args |-> <<"String">>,
     params |-> <<[arg |-> 1, enc |-> "model_dump_json"]>>,
     ret |-> "None", dec |-> "json.loads"],
    [name |-> "WalletSign", method |-> "Filecoin.WalletSign", args |-> <<"String", "VecU8LotusJson">>,
     params |-> <<[arg |-> 1, enc |-> "model_dump_json"], [arg |-> 2, enc |-> "model_dump_json"]>>,
     ret |-> "SignatureLotusJson", dec |-> "model_validate_json"],
    [name |-> "WalletValidateAddress", method |-> "Filecoin.WalletValidateAddress", args |-> <<"str">>,
     params |-> <<[arg |-> 1, enc |-> "json.dumps"]>>,
     ret |-> "String", dec |-> "model_validate_json"],
    [name |-> "WalletVerify", method |-> "Filecoin.WalletVerify", args |-> <<"String", "VecU8LotusJson", "SignatureLotusJson">>,
     params |-> <<[arg |-> 1, enc |-> "model_dump_json"], [arg |-> 2, enc |-> "model_dump_json"], [arg |-> 3, enc |-> "model_dump_json"]>>,
     ret |-> "bool", dec |-> "json.loads"],
    [name |-> "WalletDelete", method |-> "Filecoin.WalletDelete", args |-> <<"String">>,
     params |-> <<[arg |-> 1, enc |-> "model_dump_json"]>>,
     ret |-> "None", dec |-> "json.loads"],
    [name |-> "Web3ClientVersion", method |-> "Filecoin.Web3ClientVersion", args |-> <<>>,
     params |-> <<>>,
     ret |-> "str", dec |-> "json.loads"],
    [name |-> "EthSyncing", method |-> "Filecoin.EthSyncing", args |-> <<>>,
     params |-> <<>>,
     ret |-> "EthSyncingResultLotusJson", dec |-> "model_validate_json"],
    [name |-> "EthAccounts", method |-> "Filecoin.EthAccounts", args |-> <<>>,
     params |-> <<>>,
     ret |-> "AllocStringString", dec |-> "model_validate_json"],
    [name |-> "EthBlockNumber", method |-> "Filecoin.EthBlockNumber", args |-> <<>>,
     params |-> <<>>,
     ret |-> "str", dec |-> "json.loads"],
    [name |-> "EthChainId", method |-> "Filecoin.EthChainId", args |-> <<>>,
     params |-> <<>>,
     ret |-> "str", dec |-> "json.loads"],
    [name |-> "EthGasPrice", method |-> "Filecoin.EthGasPrice", args |-> <<>>,
     params |-> <<>>,
     ret |-> "BigInt", dec |-> "model_validate_json"],
    [name |-> "EthGetBalance", method |-> "Filecoin.EthGetBalance", args |-> <<"Address", "str">>,
     params |-> <<[arg |-> 1, enc |-> "model_dump_json"], [arg |-> 2, enc |-> "json.dumps"]>>,
     ret |-> "BigInt", dec |-> "model_validate_json"],
    [name |-> "EthGetBlockByNumber", method |-> "Filecoin.EthGetBlockByNumber", args |-> <<"str", "bool">>,
     params |-> <<[arg |-> 1, enc |-> "json.dumps"], [arg |-> 2, enc |-> "json.dumps"]>>,
     ret |-> "Block", dec |-> "model_validate_json"]
>>

(***************************************************************************)
(* The declared types of the Client operations.                            *)
(***************************************************************************)
PlainTypes == {"int", "float", "str", "bool", "typing.Any"}

\* well-formed values of a declared argument type
ArgDomain(type) ==
    CASE type = "int"        -> {PyInt(0), PyInt(7)}
      [] type = "float"      -> {PyFloat(5), PyFloat(20)}
      [] type = "str"        -> {PyStr("f01234"), PyStr("")}
      [] type = "bool"       -> {PyBool(TRUE), PyBool(FALSE)}
      [] type = "typing.Any" -> {PyNone, PyList(<<PyInt(1)>>)}
      [] OTHER -> {PyModel(type, PyStr("f01234")),
                   PyModel(type, PyDict(<<"/">>, <<PyStr("bafy")>>))}

RECURSIVE ArgTuples(_, _)
ArgTuples(types, i) ==
    IF i > Len(types) THEN {<<>>}
    ELSE {<<a>> \o rest : a \in ArgDomain(types[i]), rest \in ArgTuples(types, i + 1)}

\* BaseModel.model_dump_json(by_alias=True): the model's structured JSON form
ModelDumpJson(m) == Dumps(m.v)

Encode(enc, a) == IF enc = "json.dumps" THEN Dumps(a) ELSE ModelDumpJson(a)

\* faulty variant: the list is built back to front
OperationParamsReversed(entry, a) ==
    [i \in 1..Len(entry.params) |->
        Encode(entry.params[Len(entry.params) + 1 - i].enc,
               a[entry.params[Len(entry.params) + 1 - i].arg])]

\* the list an operation passes to self.call: one text per list element,
\* each the encoding of the argument that element names
OperationParams(entry, a) ==
    [i \in 1..Len(entry.params) |->
        Encode(entry.params[i].enc, a[entry.params[i].arg])]

(***************************************************************************)
(* Outcomes of a call: nothing yet, a returned text, a raised exception.   *)
(***************************************************************************)
NoOutcome == [kind |-> "none", exc |-> "", payload |-> PyNone, text |-> <<>>]
Return(text) == [kind |-> "return", exc |-> "", payload |-> PyNone, text |-> text]
Raise(exc, payload) == [kind |-> "raise", exc |-> exc, payload |-> payload, text |-> <<>>]

NoValue == [kind |-> "none", exc |-> "", payload |-> PyNone, value |-> PyNone]
OpValue(v) == [kind |-> "return", exc |-> "", payload |-> PyNone, value |-> v]
OpRaise(exc, payload) == [kind |-> "raise", exc |-> exc, payload |-> payload, value |-> PyNone]

NoRequest == [sent |-> FALSE]
Request(u, body, authorization) ==
    [sent |-> TRUE, url |-> u, body |-> body, authorization |-> authorization]

NoResponse == [status |-> 0, body |-> <<>>]

NoOp == 0

(***************************************************************************)
(* HttpClient.call, lines 252-257: the request envelope.                   *)
(***************************************************************************)
ParsedParam(text) == Loads(text)

\* faulty variant: the texts are put into params as they are, as strings
BuildRequestNestedStrings(m, ps) ==
    IF \E i \in 1..Len(ps) : ~ParsedParam(ps[i]).ok
    THEN [ok |-> FALSE, req |-> PyNone]
    ELSE [ok |-> TRUE,
          req |-> PyDict(<<"jsonrpc", "id", "method", "params">>,
                         <<PyStr("2.0"), PyNone, PyStr(m),
                           PyList([i \in 1..Len(ps) |-> PyStr(ToString(ps[i]))])>>)]

\* faulty variant: a text that does not parse is left out and the rest is sent
BuildRequestSkipsInvalid(m, ps) ==
    LET good == SelectSeq(ps, LAMBDA t : ParsedParam(t).ok)
    IN  [ok |-> TRUE,
         req |-> PyDict(<<"jsonrpc", "id", "method", "params">>,
                        <<PyStr("2.0"), PyNone, PyStr(m),
                          PyList([i \in 1..Len(good) |-> ParsedParam(good[i]).v])>>)]

BuildRequest(m, ps) ==
    LET parsed == [i \in 1..Len(ps) |-> ParsedParam(ps[i])]
    IN  IF \E i \in 1..Len(ps) : ~parsed[i].ok
        THEN [ok |-> FALSE, req |-> PyNone]
        ELSE [ok |-> TRUE,
              req |-> PyDict(<<"jsonrpc", "id", "method", "params">>,
                             <<PyStr("2.0"), PyNone, PyStr(m),
                               PyList([i \in 1..Len(ps) |-> parsed[i].v])>>)]

\* line 258: the auth argument handed to requests.post
AuthArgument(tok) == IF tok # PyNone THEN PyStr("Bearer " \o tok.s) ELSE PyNone

\* requests prepares the auth argument before anything is sent: None adds
\* no header; anything else is called as auth(request), and a str is not
\* callable, so the post raises TypeError.
PrepareAuth(auth) ==
    IF auth = PyNone THEN [ok |-> TRUE, authorization |-> PyNone]
    ELSE [ok |-> FALSE, authorization |-> PyNone]

\* faulty variant: only server errors are raised
RaisesForStatusServerOnly(status) == 500 <= status /\ status < 600

\* line 259: Response.raise_for_status raises HTTPError for 4xx and 5xx
RaisesForStatus(status) == 400 <= status /\ status < 600

\* faulty variant: only a missing key counts ("result" not in json_resp)
ResultIsNoneMissingOnly(json_resp) == ~DictHas(json_resp, "result")

\* faulty variant: a truthiness test (not json_resp.get("result"))
ResultIsNoneFalsy(json_resp) ==
    DictGet(json_resp, "result") \in
        {PyNone, PyBool(FALSE), PyInt(0), PyStr(""), PyList(<<>>), PyDict(<<>>, <<>>)}

\* line 262: json_resp.get("result") is None
ResultIsNone(json_resp) == DictGet(json_resp, "result") = PyNone

\* faulty variant: RuntimeError(json_resp.get("error"))
ErrorPayloadErrorField(json_resp) == DictGet(json_resp, "error")

\* faulty variant: RuntimeError({"error": json_resp.get("error")})
ErrorPayloadOnlyError(json_resp) ==
    PyDict(<<"error">>, <<DictGet(json_resp, "error")>>)

\* line 263: the payload of the RuntimeError
ErrorPayload(json_resp) == json_resp

\* faulty variant: json.dumps(json_resp)
ReturnedTextWholeResponse(json_resp) == Dumps(json_resp)

\* line 264: the returned text
ReturnedText(json_resp) == Dumps(DictGet(json_resp, "result"))

\* faulty variant: the body is read first, and a body that holds a result is
\* returned whatever the status
CallOnResponseParseFirst(resp, optimized) ==
    LET j == Loads(resp.body)
    IN  IF j.ok /\ j.v.t = "dict" /\ ~ResultIsNone(j.v)
        THEN [outcome |-> Return(ReturnedText(j.v)),
              steps |-> {"json", "isinstance", "result_check", "dumps"}]
        ELSE IF RaisesForStatus(resp.status)
        THEN [outcome |-> Raise("HTTPError", PyInt(resp.status)),
              steps |-> {"json", "raise_for_status"}]
        ELSE [outcome |-> Raise("RuntimeError", PyNone),
              steps |-> {"json", "raise_for_status", "result_check"}]

\* faulty variant: a body that is not an object is reported with the
\* RuntimeError of a missing result
CallOnResponseOneError(resp, optimized) ==
    IF RaisesForStatus(resp.status)
    THEN [outcome |-> Raise("HTTPError", PyInt(resp.status)),
          steps |-> {"raise_for_status"}]
    ELSE LET j == Loads(resp.body)
         IN  IF ~j.ok
             THEN [outcome |-> Raise("JSONDecodeError", PyNone),
                   steps |-> {"raise_for_status", "json"}]
             ELSE IF j.v.t # "dict" \/ ResultIsNone(j.v)
             THEN [outcome |-> Raise("RuntimeError", ErrorPayload(j.v)),
                   steps |-> {"raise_for_status", "json", "result_check"}]
             ELSE [outcome |-> Return(ReturnedText(j.v)),
                   steps |-> {"raise_for_status", "json", "isinstance",
                              "result_check", "dumps"}]

\* faulty variant: a body that is no object is taken for the result itself
CallOnResponseReturnsNonObject(resp, optimized) ==
    IF RaisesForStatus(resp.status)
    THEN [outcome |-> Raise("HTTPError", PyInt(resp.status)),
          steps |-> {"raise_for_status"}]
    ELSE LET j == Loads(resp.body)
         IN  IF ~j.ok
             THEN [outcome |-> Raise("JSONDecodeError", PyNone),
                   steps |-> {"raise_for_status", "json"}]
             ELSE IF j.v.t # "dict"
             THEN [outcome |-> Return(Dumps(j.v)),
                   steps |-> {"raise_for_status", "json", "dumps"}]
             ELSE IF ResultIsNone(j.v)
             THEN [outcome |-> Raise("RuntimeError", ErrorPayload(j.v)),
                   steps |-> {"raise_for_status", "json", "isinstance", "result_check"}]
             ELSE [outcome |-> Return(ReturnedText(j.v)),
                   steps |-> {"raise_for_status", "json", "isinstance",
                              "result_check", "dumps"}]

\* lines 259-264 on a received response. optimized: python -O strips the
\* assert of line 261, and line 262 then fails on a value without .get
CallOnResponse(resp, optimized) ==
    IF RaisesForStatus(resp.status)
    THEN [outcome |-> Raise("HTTPError", PyInt(resp.status)),
          steps |-> {"raise_for_status"}]
    ELSE LET j == Loads(resp.body)
         IN  IF ~j.ok
             THEN [outcome |-> Raise("JSONDecodeError", PyNone),
                   steps |-> {"raise_for_status", "json"}]
             ELSE IF j.v.t # "dict"
             THEN [outcome |-> Raise(IF optimized THEN "AttributeError"
                                     ELSE "AssertionError", PyNone),
                   steps |-> {"raise_for_status", "json", "isinstance"}]
             ELSE IF ResultIsNone(j.v)
             THEN [outcome |-> Raise("RuntimeError", ErrorPayload(j.v)),
                   steps |-> {"raise_for_status", "json", "isinstance", "result_check"}]
             ELSE [outcome |-> Return(ReturnedText(j.v)),
                   steps |-> {"raise_for_status", "json", "isinstance",
                              "result_check", "dumps"}]

(***************************************************************************)
(* The inputs and the environment.                                         *)
(***************************************************************************)
MaxParams == 2

Urls == {"http://127.0.0.1:2345/rpc/v1"}
Tokens == {PyNone, PyStr("abc"), PyStr("xyz")}
Methods == {"Filecoin.ChainHead", "Filecoin.WalletBalance"}

\* {"a": 1, "a": 2}: valid JSON text with a repeated key
RepeatedKeyText ==
    <<P("{"), StrTok("a"), P(":"), IntTok(1), P(","),
      StrTok("a"), P(":"), IntTok(2), P("}")>>

ValidParamTexts ==
    {Dumps(PyStr("f01234")), Dumps(PyInt(7)),
     Dumps(PyDict(<<"/">>, <<PyStr("bafy")>>)), RepeatedKeyText}

\* f01234 without quotes
InvalidParamTexts == {<<Junk("f01234")>>}

ParamTexts == ValidParamTexts \cup InvalidParamTexts

RECURSIVE ParamLists(_)
ParamLists(n) ==
    IF n = 0 THEN {<<>>}
    ELSE ParamLists(n - 1)
         \cup {Append(ps, t) : ps \in {q \in ParamLists(n - 1) : Len(q) = n - 1},
                               t \in ParamTexts}

Statuses == {101, 200, 300, 404, 500}

\* a 1xx, 204 or 304 response has no body: the HTTP layer reads none
NoBodyStatus(s) == (100 <= s /\ s <= 199) \/ s \in {204, 304}

MethodNotFound ==
    PyDict(<<"code", "message">>, <<PyInt(-32601), PyStr("method not found")>>)

Tipset ==
    PyDict(<<"Cids", "Height">>,
           <<PyList(<<PyDict(<<"/">>, <<PyStr("bafy")>>)>>), PyInt(1000)>>)

ResultValues ==
    {Tipset, PyStr("1000000000000000000"), PyBool(FALSE), PyInt(0), PyStr(""),
     PyList(<<>>), PyDict(<<>>, <<>>)}

ResponseObjects ==
    {PyDict(<<"result">>, <<r>>) : r \in ResultValues}
    \cup {PyDict(<<"result", "error">>, <<PyInt(0), MethodNotFound>>),
          PyDict(<<"jsonrpc", "id", "result">>, <<PyStr("2.0"), PyNone, PyBool(TRUE)>>),
          PyDict(<<"error">>, <<MethodNotFound>>),
          PyDict(<<"jsonrpc", "id", "error">>, <<PyStr("2.0"), PyNone, PyStr("boom")>>),
          PyDict(<<"result">>, <<PyNone>>),
          PyDict(<<"result", "error">>, <<PyNone, MethodNotFound>>),
          PyDict(<<>>, <<>>)}

Bodies ==
    {Dumps(o) : o \in ResponseObjects}
    \cup {Dumps(PyList(<<PyInt(1)>>)), Dumps(PyNone),
          Dumps(PyStr("ok")), Dumps(PyInt(7)), Dumps(PyBool(TRUE)),
          <<Junk("<html>")>>, <<>>}

(***************************************************************************)
(* Callers that use one HttpClient at the same time: each is inside its    *)
(* own activation of call, with its own locals.                            *)
(***************************************************************************)
NumThreads == 2

Threads == 1..NumThreads

IdleThread ==
    [pc |-> "idle", method_name |-> "", params |-> <<>>, wire |-> NoRequest,
     http_resp |-> NoResponse, call_outcome |-> NoOutcome]

(***************************************************************************)
(* HttpClient.__repr__, lines 243-247.                                     *)
(***************************************************************************)
NoRepr == ""

\* faulty variant: the token is formatted into the text
ReprShowsToken(u, tok) ==
    IF tok # PyNone
    THEN "HttpClient(url=" \o u \o ", token=" \o tok.s \o ")"
    ELSE "HttpClient(url=" \o u \o ")"

Repr(u, tok) ==
    IF tok # PyNone
    THEN "HttpClient(url=" \o u \o ", token=...)"
    ELSE "HttpClient(url=" \o u \o ")"

(***************************************************************************)
(* scripts/serialize_commit.py. Strings the script slices or indexes are   *)
(* sequences of characters.                                                *)
(***************************************************************************)
MaxArgs == 1
ShortLen == 8

\* s[lo: hi] of Python, for 0 <= lo
Slice(s, lo, hi) ==
    SubSeq(s, lo + 1, IF hi > Len(s) THEN Len(s) ELSE hi)

\* sys.argv[0]
ScriptName == <<"s", ".", "p", "y">>

ScriptArgs ==
    {<<"-", "d">>, <<"-", "q">>, <<"-", "-", "q", "u", "i", "e", "t">>,
     <<"x">>, <<>>}

RECURSIVE ArgLists(_)
ArgLists(n) ==
    IF n = 0 THEN {<<>>}
    ELSE ArgLists(n - 1)
         \cup {Append(l, a) : l \in {k \in ArgLists(n - 1) : Len(k) = n - 1},
                              a \in ScriptArgs}

\* str(repo.revparse_single('HEAD').id): 40 hexadecimal digits
Hashes ==
    {<<"0", "1", "2", "3", "4", "5", "6", "7", "8", "9",
       "a", "b", "c", "d", "e", "f", "0", "1", "2", "3",
       "4", "5", "6", "7", "8", "9", "a", "b", "c", "d",
       "e", "f", "0", "1", "2", "3", "4", "5", "6", "7">>,
     <<"d", "e", "a", "d", "b", "e", "e", "f", "d", "e",
       "a", "d", "b", "e", "e", "f", "d", "e", "a", "d",
       "b", "e", "e", "f", "d", "e", "a", "d", "b", "e",
       "e", "f", "d", "e", "a", "d", "b", "e", "e", "f">>}

\* lines 43-56 for one argument, on the flags st = [ok, debug, quiet];
\* arg[0] of an empty argument raises IndexError
ParseArg(arg, st) ==
    IF Slice(arg, 0, 1) = <<"-", "-">>
    THEN LET name == Slice(arg, 2, Len(arg))
         IN  IF name = <<"d", "e", "b", "u", "g">> THEN [st EXCEPT !.debug = TRUE]
             ELSE IF name = <<"q", "u", "i", "e", "t">> THEN [st EXCEPT !.quiet = TRUE]
             ELSE st
    ELSE IF Len(arg) = 0
    THEN [st EXCEPT !.ok = FALSE]
    ELSE IF arg[1] = "-"
    THEN LET letters == Slice(arg, 1, Len(arg))
         IN  [st EXCEPT
                !.debug = @ \/ \E i \in 1..Len(letters) : letters[i] = "d",
                !.quiet = @ \/ \E i \in 1..Len(letters) : letters[i] = "q"]
    ELSE st

\* lines 38-56: the loop over sys.argv, which ends at the first exception
RECURSIVE ParseArgs(_, _, _)
ParseArgs(argv, i, st) ==
    IF i > Len(argv) \/ ~st.ok THEN st
    ELSE ParseArgs(argv, i + 1, ParseArg(argv[i], st))

NoFile == [exists |-> FALSE]
\* open(..., 'w') has truncated the file and nothing was written after
EmptyFile == [exists |-> TRUE, lines |-> <<>>]

\* lines 88-96: toml.dump of {'current_commit': {'hash': h, 'short': s}}
TomlDump(h, s) ==
    [exists |-> TRUE,
     lines |-> <<[table |-> "current_commit"],
                 [key |-> "hash", value |-> h],
                 [key |-> "short", value |-> s]>>]

\* the script is not running; file is config_forest_commit.toml as it is
NotRunWith(file) ==
    [pc |-> "not_run", argv |-> <<>>, module_debug |-> FALSE, module_quiet |-> FALSE,
     module_rs |-> 0, commit_hash |-> <<>>, commit_hash_short |-> <<>>,
     git_failed |-> FALSE, write_failed |-> FALSE, crashed |-> FALSE, wrote |-> FALSE,
     out |-> <<>>, file |-> file, exit_status |-> -1]

NotRun == NotRunWith(NoFile)

(***************************************************************************)
(* The state machine.                                                      *)
(***************************************************************************)
Init ==
    /\ url \in Urls
    /\ token \in Tokens
    /\ pc = "idle"
    /\ op = NoOp
    /\ args = <<>>
    /\ method_name = ""
    /\ params = <<>>
    /\ wire = NoRequest
    /\ posts = 0
    /\ http_resp = NoResponse
    /\ steps = {}
    /\ call_outcome = NoOutcome
    /\ op_outcome = NoValue
    /\ transport_calls = 0
    /\ post_calls = 0
    /\ threads = [t \in Threads |-> IdleThread]
    /\ repr_text = NoRepr
    /\ script = NotRun

\* faulty variant: NetInfo is bound to the method name of NetPeers
ClientOperationCopiedName(o, a) ==
    /\ pc = "idle"
    /\ op' = o
    /\ args' = a
    /\ method_name' = IF Catalog[o].name = "NetInfo" THEN "Filecoin.NetPeers"
                      ELSE Catalog[o].method
    /\ params' = OperationParams(Catalog[o], a)
    /\ pc' = "called"
    /\ transport_calls' = transport_calls + 1
    /\ UNCHANGED <<url, token, wire, posts, http_resp, steps, call_outcome, op_outcome,
                   post_calls, threads, repr_text, script>>

\* a Client operation (lines 13-234) is called: it encodes its arguments
\* and enters self.call
ClientOperation(o, a) ==
    /\ pc = "idle"
    /\ op' = o
    /\ args' = a
    /\ method_name' = Catalog[o].method
    /\ params' = OperationParams(Catalog[o], a)
    /\ pc' = "called"
    /\ transport_calls' = transport_calls + 1
    /\ UNCHANGED <<url, token, wire, posts, http_resp, steps, call_outcome, op_outcome,
                   post_calls, threads, repr_text, script>>

\* the caller uses the transport directly: call(m, ps)
DirectCall(m, ps) ==
    /\ pc = "idle"
    /\ op' = NoOp
    /\ args' = <<>>
    /\ method_name' = m
    /\ params' = ps
    /\ pc' = "called"
    /\ transport_calls' = transport_calls + 1
    /\ UNCHANGED <<url, token, wire, posts, http_resp, steps, call_outcome, op_outcome,
                   post_calls, threads, repr_text, script>>

\* faulty variant: a post that fails to connect is tried a second time
SendRequestRetries ==
    /\ pc = "called"
    /\ LET b == BuildRequest(method_name, params)
           a == PrepareAuth(AuthArgument(token))
       IN  IF ~b.ok
           THEN /\ call_outcome' = Raise("JSONDecodeError", PyNone)
                /\ steps' = {"build"}
                /\ pc' = "call_done"
                /\ UNCHANGED <<wire, posts, post_calls>>
           ELSE IF ~a.ok
           THEN /\ call_outcome' = Raise("TypeError", PyNone)
                /\ steps' = {"build", "post"}
                /\ pc' = "call_done"
                /\ post_calls' = post_calls + 1
                /\ UNCHANGED <<wire, posts>>
           ELSE \/ /\ call_outcome' = Raise("ConnectionError", PyNone)
                   /\ steps' = {"build", "post"}
                   /\ pc' = "call_done"
                   /\ post_calls' = post_calls + 2
                   /\ UNCHANGED <<wire, posts>>
                \/ /\ wire' = Request(url, Dumps(b.req), a.authorization)
                   /\ posts' = posts + 1
                   /\ post_calls' = post_calls + 1
                   /\ steps' = {"build", "post"}
                   /\ pc' = "in_flight"
                   /\ UNCHANGED call_outcome
    /\ UNCHANGED <<url, token, op, args, method_name, params, http_resp, op_outcome,
                   transport_calls, threads, repr_text, script>>

\* faulty variant: the header value is stored back into self.token
SendRequestStoresBearer ==
    /\ pc = "called"
    /\ call_outcome' = Raise("TypeError", PyNone)
    /\ steps' = {"build", "post"}
    /\ pc' = "call_done"
    /\ post_calls' = post_calls + 1
    /\ token' = AuthArgument(token)
    /\ UNCHANGED <<url, op, args, method_name, params, wire, posts, http_resp, op_outcome,
                   transport_calls, threads, repr_text, script>>

\* lines 252-258: build the envelope and hand it to requests.post
SendRequest ==
    /\ pc = "called"
    /\ LET b == BuildRequest(method_name, params)
           a == PrepareAuth(AuthArgument(token))
       IN  IF ~b.ok
           THEN /\ call_outcome' = Raise("JSONDecodeError", PyNone)
                /\ steps' = {"build"}
                /\ pc' = "call_done"
                /\ UNCHANGED <<wire, posts, post_calls>>
           ELSE IF ~a.ok
           THEN /\ call_outcome' = Raise("TypeError", PyNone)
                /\ steps' = {"build", "post"}
                /\ pc' = "call_done"
                /\ post_calls' = post_calls + 1
                /\ UNCHANGED <<wire, posts>>
           ELSE \/ /\ call_outcome' = Raise("ConnectionError", PyNone)
                   /\ steps' = {"build", "post"}
                   /\ pc' = "call_done"
                   /\ post_calls' = post_calls + 1
                   /\ UNCHANGED <<wire, posts>>
                \/ /\ wire' = Request(url, Dumps(b.req), a.authorization)
                   /\ posts' = posts + 1
                   /\ post_calls' = post_calls + 1
                   /\ steps' = {"build", "post"}
                   /\ pc' = "in_flight"
                   /\ UNCHANGED call_outcome
    /\ UNCHANGED <<url, token, op, args, method_name, params, http_resp, op_outcome,
                   transport_calls, threads, repr_text, script>>

\* requests.post returns a response, or the exchange fails
Receive ==
    /\ pc = "in_flight"
    /\ \/ \E s \in Statuses, b \in Bodies :
            /\ NoBodyStatus(s) => b = <<>>
            /\ http_resp' = [status |-> s, body |-> b]
            /\ pc' = "responded"
            /\ UNCHANGED call_outcome
       \/ /\ call_outcome' = Raise("ConnectionError", PyNone)
          /\ pc' = "call_done"
          /\ UNCHANGED http_resp
    /\ UNCHANGED <<url, token, op, args, method_name, params, wire, posts, steps, op_outcome,
                   transport_calls, post_calls, threads, repr_text, script>>

\* lines 259-264
CompleteCall ==
    /\ pc = "responded"
    /\ \E optimized \in BOOLEAN :
         LET r == CallOnResponse(http_resp, optimized)
         IN  /\ call_outcome' = r.outcome
             /\ steps' = steps \cup r.steps
    /\ pc' = "call_done"
    /\ UNCHANGED <<url, token, op, args, method_name, params, wire, posts, http_resp, op_outcome,
                   transport_calls, post_calls, threads, repr_text, script>>

\* json.loads(...) of the text self.call returned
PlainDecode(text) ==
    LET r == Loads(text)
    IN  IF r.ok THEN OpValue(r.v) ELSE OpRaise("JSONDecodeError", PyNone)

\* Model.model_validate_json(...) of the text self.call returned
ModelValidateJson(type, text, valid) ==
    LET r == Loads(text)
    IN  IF r.ok /\ valid THEN OpValue(PyModel(type, r.v))
        ELSE OpRaise("ValidationError", PyNone)

\* faulty variant: a failure of self.call is caught and raised anew
OperationReturnWraps ==
    /\ pc = "call_done"
    /\ op # NoOp
    /\ IF call_outcome.kind = "raise"
       THEN /\ op_outcome' = OpRaise("RuntimeError", PyStr(call_outcome.exc))
            /\ UNCHANGED steps
       ELSE /\ steps' = steps \cup {"decode"}
            /\ op_outcome' = PlainDecode(call_outcome.text)
    /\ pc' = "done"
    /\ UNCHANGED <<url, token, op, args, method_name, params, wire, posts, http_resp, call_outcome,
                   transport_calls, post_calls, threads, repr_text, script>>

\* faulty variant: every result is decoded with json.loads
OperationReturnAlwaysPlain ==
    /\ pc = "call_done"
    /\ op # NoOp
    /\ IF call_outcome.kind = "raise"
       THEN /\ op_outcome' = OpRaise(call_outcome.exc, call_outcome.payload)
            /\ UNCHANGED steps
       ELSE /\ steps' = steps \cup {"decode"}
            /\ op_outcome' = PlainDecode(call_outcome.text)
    /\ pc' = "done"
    /\ UNCHANGED <<url, token, op, args, method_name, params, wire, posts, http_resp, call_outcome,
                   transport_calls, post_calls, threads, repr_text, script>>

\* the operation's own part after self.call: an exception passes through,
\* a returned text is decoded as the operation's body says
OperationReturn ==
    /\ pc = "call_done"
    /\ op # NoOp
    /\ IF call_outcome.kind = "raise"
       THEN /\ op_outcome' = OpRaise(call_outcome.exc, call_outcome.payload)
            /\ UNCHANGED steps
       ELSE /\ steps' = steps \cup {"decode"}
            /\ IF Catalog[op].dec = "json.loads"
               THEN op_outcome' = PlainDecode(call_outcome.text)
               ELSE \E valid \in BOOLEAN :
                      op_outcome' = ModelValidateJson(Catalog[op].ret,
                                                      call_outcome.text, valid)
    /\ pc' = "done"
    /\ UNCHANGED <<url, token, op, args, method_name, params, wire, posts, http_resp, call_outcome,
                   transport_calls, post_calls, threads, repr_text, script>>

\* the invocation is over; the client is ready for the next one
Reset ==
    /\ \/ pc = "done"
       \/ pc = "call_done" /\ op = NoOp
    /\ pc' = "idle"
    /\ op' = NoOp
    /\ args' = <<>>
    /\ method_name' = ""
    /\ params' = <<>>
    /\ wire' = NoRequest
    /\ posts' = 0
    /\ http_resp' = NoResponse
    /\ steps' = {}
    /\ call_outcome' = NoOutcome
    /\ op_outcome' = NoValue
    /\ transport_calls' = 0
    /\ post_calls' = 0
    /\ UNCHANGED <<url, token, threads, repr_text, script>>

\* repr(client), lines 243-247
ReprCall ==
    /\ pc = "idle"
    /\ repr_text' = Repr(url, token)
    /\ pc' = "repr_done"
    /\ UNCHANGED <<url, token, op, args, method_name, params, wire, posts, http_resp, steps,
                   call_outcome, op_outcome, transport_calls, post_calls, threads, script>>

\* the caller has used the text and goes on
ReprReturn ==
    /\ pc = "repr_done"
    /\ repr_text' = NoRepr
    /\ pc' = "idle"
    /\ UNCHANGED <<url, token, op, args, method_name, params, wire, posts, http_resp, steps,
                   call_outcome, op_outcome, transport_calls, post_calls, threads, script>>

Next ==
    \/ \E o \in 1..Len(Catalog) : \E a \in ArgTuples(Catalog[o].args, 1) :
          ClientOperation(o, a)
    \/ \E m \in Methods, ps \in ParamLists(MaxParams) : DirectCall(m, ps)
    \/ SendRequest
    \/ Receive
    \/ CompleteCall
    \/ OperationReturn
    \/ Reset
    \/ ReprCall
    \/ ReprReturn

Spec == Init /\ [][Next]_vars

(***************************************************************************)
(* Vocabulary of the properties.                                           *)
(***************************************************************************)
CallOver == pc \in {"call_done", "done"}
HaveResponse == http_resp # NoResponse
SuccessStatus == 200 <= http_resp.status /\ http_resp.status <= 299

\* the response body as http_resp.json() decodes it
Decoded == Loads(http_resp.body)
ResponseIsObject == HaveResponse /\ Decoded.ok /\ Decoded.v.t = "dict"

\* requests' HTTPError and ConnectionError: the exchange itself failed
IsTransportError(o) == o.kind = "raise" /\ o.exc \in {"HTTPError", "ConnectionError"}
\* the RuntimeError of line 263
IsApplicationError(o) == o.kind = "raise" /\ o.exc = "RuntimeError"

OpIs(name) == op # NoOp /\ Catalog[op].name = name

\* {"jsonrpc":"2.0","id":null,"method":"Filecoin.ChainHead","params":[]}
ChainHeadBody ==
    <<P("{"), StrTok("jsonrpc"), P(":"), StrTok("2.0"), P(","),
      StrTok("id"), P(":"), Lit("null"), P(","),
      StrTok("method"), P(":"), StrTok("Filecoin.ChainHead"), P(","),
      StrTok("params"), P(":"), P("["), P("]"), P("}")>>

(***************************************************************************)
(* C1: the body of every request HttpClient.call posts is the object       *)
(* {jsonrpc: "2.0", id: null, method: m, params: [...]} and nothing else:  *)
(* the method name verbatim, id null, and each params entry the parsed     *)
(* JSON value of the corresponding input text (the text "f01234" in quotes *)
(* arrives as the string f01234, not as a string holding the quotes); with *)
(* no parameters params is the empty list, and ChainHead sends exactly     *)
(* {"jsonrpc":"2.0","id":null,"method":"Filecoin.ChainHead","params":[]}.  *)
(***************************************************************************)
C1_RequestEnvelope ==
    wire.sent =>
        LET body == Loads(wire.body)
            ps == DictGet(body.v, "params")
        IN  /\ body.ok
            /\ body.v.t = "dict"
            /\ Len(body.v.keys) = 4
            /\ DictGet(body.v, "jsonrpc") = PyStr("2.0")
            /\ DictHas(body.v, "id") /\ DictGet(body.v, "id") = PyNone
            /\ DictGet(body.v, "method") = PyStr(method_name)
            /\ ps.t = "list"
            /\ Len(ps.items) = Len(params)
            /\ \A i \in 1..Len(params) :
                 /\ Loads(params[i]).ok
                 /\ ps.items[i] = Loads(params[i]).v
                 /\ params[i] = <<StrTok("f01234")>> => ps.items[i] = PyStr("f01234")
            /\ (method_name = "Filecoin.ChainHead" /\ params = <<>>)
                 => wire.body = ChainHeadBody

\* a request with two parameters, a string and an object, is on the wire
C1_Witness ==
    /\ wire.sent
    /\ Len(params) = 2
    /\ params[1] = <<StrTok("f01234")>>
    /\ params[2] = Dumps(PyDict(<<"/">>, <<PyStr("bafy")>>))

(***************************************************************************)
(* C2: for every operation of the catalog called with well-formed          *)
(* arguments, the list handed to the transport and the params list of the  *)
(* request envelope have as many entries as the operation declares         *)
(* arguments, and entry i is the encoding of declared argument i.          *)
(***************************************************************************)
C2_ArityAndOrder ==
    (op # NoOp /\ pc # "idle") =>
        LET e == Catalog[op]
        IN  /\ Len(params) = Len(e.args)
            /\ Len(args) = Len(e.args)
            /\ \A i \in 1..Len(e.args) : params[i] = Encode(e.params[i].enc, args[i])
            /\ wire.sent =>
                 LET ps == DictGet(Loads(wire.body).v, "params")
                 IN  /\ Len(ps.items) = Len(e.args)
                     /\ \A i \in 1..Len(e.args) :
                          ps.items[i] = Loads(Encode(e.params[i].enc, args[i])).v

\* GasEstimateGasPremium(nblocksincl, sender, gas_limit, tipset_key) is on
\* the wire with two different ints and two different models
C2_Witness ==
    /\ OpIs("GasEstimateGasPremium")
    /\ wire.sent
    /\ args[1] # args[3]
    /\ args[2].v # args[4].v

(***************************************************************************)
(* C3 as stated: a response {"error": E} without a result field makes the  *)
(* call fail with an application error whose payload equals E.             *)
(***************************************************************************)
C3_PayloadEqualsE ==
    (CallOver /\ ResponseIsObject /\ SuccessStatus
        /\ Decoded.v.keys = <<"error">>)
    => /\ IsApplicationError(call_outcome)
       /\ call_outcome.payload = DictGet(Decoded.v, "error")

(***************************************************************************)
(* C3 amended: a response {"error": E} without a result field, with a      *)
(* status the status check lets through, makes the call fail with an       *)
(* application error whose payload is the whole response object            *)
(* {"error": E}; E is the payload's error field, unchanged.                *)
(***************************************************************************)
C3_PayloadHoldsE ==
    (CallOver /\ ResponseIsObject /\ ~RaisesForStatus(http_resp.status)
        /\ Decoded.v.keys = <<"error">>)
    => /\ IsApplicationError(call_outcome)
       /\ call_outcome.payload.t = "dict"
       /\ call_outcome.payload.keys = <<"error">>
       /\ call_outcome.payload.vals[1] = DictGet(Decoded.v, "error")
       /\ http_resp.body = Dumps(PyDict(<<"error">>, <<MethodNotFound>>))
            => call_outcome.payload = PyDict(<<"error">>, <<MethodNotFound>>)

\* {"error":{"code":-32601,"message":"method not found"}} came with status
\* 200 and the call has failed
C3_Witness ==
    /\ CallOver
    /\ http_resp.status = 200
    /\ http_resp.body = Dumps(PyDict(<<"error">>, <<MethodNotFound>>))
    /\ call_outcome.kind = "raise"

(***************************************************************************)
(* C4: whenever the call fails because the result is absent or null, the   *)
(* application error carries the entire decoded response object: every     *)
(* field of the response with its value, and no other.                     *)
(***************************************************************************)
C4_PayloadIsWholeResponse ==
    IsApplicationError(call_outcome) =>
        /\ ResponseIsObject
        /\ ~DictHas(Decoded.v, "result") \/ DictGet(Decoded.v, "result") = PyNone
        /\ call_outcome.payload.t = "dict"
        /\ call_outcome.payload.keys = Decoded.v.keys
        /\ \A i \in 1..Len(Decoded.v.keys) :
             DictGet(call_outcome.payload, Decoded.v.keys[i]) = Decoded.v.vals[i]

\* the failing response had the fields jsonrpc, id and error
C4_Witness ==
    /\ IsApplicationError(call_outcome)
    /\ Decoded.v.keys = <<"jsonrpc", "id", "error">>
    /\ DictGet(call_outcome.payload, "jsonrpc") = PyStr("2.0")

(***************************************************************************)
(* C5: a response with a 2xx status whose object has no result field, or   *)
(* result null (with an error field or without, the empty object           *)
(* included), makes the call fail with an application error; no value is   *)
(* returned, by the call or by the operation, and null is handled as a     *)
(* missing field is.                                                       *)
(***************************************************************************)
C5_NoResultNeverSucceeds ==
    (CallOver /\ ResponseIsObject /\ SuccessStatus
        /\ (~DictHas(Decoded.v, "result") \/ DictGet(Decoded.v, "result") = PyNone))
    => /\ IsApplicationError(call_outcome)
       /\ call_outcome.payload = Decoded.v
       /\ "dumps" \notin steps
       /\ pc = "done" => (op_outcome.kind = "raise" /\ "decode" \notin steps)

\* {"result": null}, with no error field, came with status 200
C5_Witness ==
    /\ pc = "done"
    /\ http_resp.status = 200
    /\ http_resp.body = <<P("{"), StrTok("result"), P(":"), Lit("null"), P("}")>>
    /\ op_outcome.kind = "raise"

(***************************************************************************)
(* C6: a response with a 2xx status whose object has a non-null result     *)
(* makes the call return the serialization of that result, also when the   *)
(* result is false, 0, "", [] or {} and when the object has an error field *)
(* beside it.                                                              *)
(***************************************************************************)
C6_NonNullResultSucceeds ==
    (CallOver /\ ResponseIsObject /\ SuccessStatus
        /\ DictGet(Decoded.v, "result") # PyNone)
    => LET R == DictGet(Decoded.v, "result")
       IN  /\ call_outcome.kind = "return"
           /\ Loads(call_outcome.text).ok
           /\ Loads(call_outcome.text).v = R
           /\ R = PyBool(FALSE)      => call_outcome.text = <<Lit("false")>>
           /\ R = PyInt(0)           => call_outcome.text = <<IntTok(0)>>
           /\ R = PyStr("")          => call_outcome.text = <<StrTok("")>>
           /\ R = PyList(<<>>)       => call_outcome.text = <<P("["), P("]")>>
           /\ R = PyDict(<<>>, <<>>) => call_outcome.text = <<P("{"), P("}")>>

\* {"result": 0, "error": ...} came with status 200 and 0 was returned
C6_Witness ==
    /\ CallOver
    /\ http_resp.status = 200
    /\ http_resp.body = Dumps(PyDict(<<"result", "error">>, <<PyInt(0), MethodNotFound>>))
    /\ call_outcome.text = <<IntTok(0)>>

(***************************************************************************)
(* C7: with a credential configured, every call that gets as far as the    *)
(* post sends its request, and the request carries an authorization        *)
(* derived from the token; without a credential no request carries an      *)
(* authorization. (A connection that cannot be made is not counted.)       *)
(***************************************************************************)
C7_CredentialCarried ==
    /\ (token # PyNone /\ "post" \in steps /\ call_outcome.exc # "ConnectionError")
         => /\ wire.sent
            /\ wire.authorization = PyStr("Bearer " \o token.s)
    /\ (token = PyNone /\ wire.sent) => wire.authorization = PyNone

(***************************************************************************)
(* C8 as stated: every status outside 200-299, and every connection        *)
(* failure, makes the call fail with a transport error, and the body is    *)
(* not parsed, the result not checked and nothing decoded.                 *)
(***************************************************************************)
C8_NonSuccessIsTransportError ==
    (CallOver /\ ((HaveResponse /\ ~SuccessStatus)
                   \/ call_outcome.exc = "ConnectionError"))
    => /\ IsTransportError(call_outcome)
       /\ steps \cap {"json", "isinstance", "result_check", "dumps", "decode"} = {}

(***************************************************************************)
(* C8 amended: every status from 400 to 599 (4xx and 5xx), and every       *)
(* connection failure, makes the call fail with a transport error, and the *)
(* body is not parsed, the result not checked and nothing decoded; the     *)
(* operation fails with the same error.                                    *)
(***************************************************************************)
C8_ErrorStatusIsTransportError ==
    (CallOver /\ ((HaveResponse /\ http_resp.status \in 400..599)
                   \/ call_outcome.exc = "ConnectionError"))
    => /\ IsTransportError(call_outcome)
       /\ steps \cap {"json", "isinstance", "result_check", "dumps", "decode"} = {}
       /\ pc = "done" => IsTransportError(op_outcome)

\* a 404 whose body is a well-formed result envelope has failed the operation
C8_Witness ==
    /\ pc = "done"
    /\ http_resp.status = 404
    /\ http_resp.body = Dumps(PyDict(<<"result">>, <<Tipset>>))
    /\ op_outcome.exc = "HTTPError"

(***************************************************************************)
(* C9: a response with status 500 makes the call fail with a transport     *)
(* error whatever its body; the status is checked before the body is       *)
(* parsed, so the body of a 500 is never parsed.                           *)
(***************************************************************************)
C9_Status500NeverParsed ==
    /\ (CallOver /\ HaveResponse /\ http_resp.status = 500)
         => /\ call_outcome.kind = "raise"
            /\ call_outcome.exc = "HTTPError"
            /\ "raise_for_status" \in steps
            /\ "json" \notin steps
    /\ "json" \in steps => (HaveResponse /\ http_resp.status # 500)

\* the 500 came with a well-formed envelope holding a non-null result
C9_Witness ==
    /\ CallOver
    /\ http_resp.status = 500
    /\ http_resp.body = Dumps(PyDict(<<"jsonrpc", "id", "result">>,
                                     <<PyStr("2.0"), PyNone, PyBool(TRUE)>>))

DeclaredEncoding(type) ==
    IF type \in PlainTypes THEN "json.dumps" ELSE "model_dump_json"

\* a result declared as a model class is decoded with model_validate_json,
\* one declared int, str, bool, Any or None with json.loads
DeclaredDecoding(ret) ==
    IF ret \in PlainTypes \cup {"None"} THEN "json.loads" ELSE "model_validate_json"

\* the value is of the declared result type
MatchesDeclared(ret, v) ==
    CASE ret = "bool"       -> v.t = "bool"
      [] ret = "int"        -> v.t = "int"
      [] ret = "float"      -> v.t \in {"int", "float"}
      [] ret = "str"        -> v.t = "str"
      [] ret = "None"       -> v = PyNone
      [] ret = "typing.Any" -> TRUE
      [] OTHER              -> v.t = "model" /\ v.type = ret

AllParamsParse == \A i \in 1..Len(params) : Loads(params[i]).ok

\* what the caller of the invocation sees raised or returned
Seen == IF pc = "done" THEN op_outcome ELSE call_outcome

TransportErrors == {"HTTPError", "ConnectionError"}
ApplicationErrors == {"RuntimeError"}
DecodeErrors == {"ValidationError"}

C12_FailurePropagatesUnchanged ==
    (pc = "done" /\ call_outcome.kind = "raise")
    => /\ op_outcome.kind = "raise"
       /\ op_outcome.exc = call_outcome.exc
       /\ op_outcome.payload = call_outcome.payload
       /\ op_outcome.value = PyNone
       /\ "decode" \notin steps

\* the application error, with the response object in it, reached the caller
C12_Witness ==
    /\ pc = "done"
    /\ call_outcome.exc = "RuntimeError"
    /\ op_outcome.payload = PyDict(<<"error">>, <<MethodNotFound>>)

(***************************************************************************)
(* C13: every value an operation returns matches the operation's declared  *)
(* result type (a result that does not match makes the operation fail).    *)
(***************************************************************************)
C13_ReturnedValueMatchesDeclaration ==
    (pc = "done" /\ op_outcome.kind = "return")
    => MatchesDeclared(Catalog[op].ret, op_outcome.value)

(***************************************************************************)
(* C14: an operation declared to return nothing returns no value whenever  *)
(* its transport call returns, whatever the text, and fails whenever the   *)
(* transport call fails.                                                   *)
(***************************************************************************)
C14_NothingReturned ==
    (pc = "done" /\ Catalog[op].ret = "None")
    => IF call_outcome.kind = "return"
       THEN op_outcome.kind = "return" /\ op_outcome.value = PyNone
       ELSE op_outcome.kind = "raise"

C16_ConfigUnchanged == [][url' = url /\ token' = token]_vars

\* an invocation on a client with the token abc is over
C16_Witness ==
    /\ pc = "done"
    /\ token = PyStr("abc")
    /\ post_calls = 1

(***************************************************************************)
(* C18: the method name an operation passes to the transport is the name   *)
(* of no other operation of the catalog, so the method name in a request   *)
(* identifies the operation.                                               *)
(***************************************************************************)
C18_MethodNameIdentifiesOperation ==
    (op # NoOp /\ pc # "idle")
    => /\ \A o \in 1..Len(Catalog) : Catalog[o].method = method_name => o = op
       /\ wire.sent => DictGet(Loads(wire.body).v, "method") = PyStr(Catalog[op].method)

\* NetInfo, the one operation outside the Filecoin namespace, is on the wire
C18_Witness ==
    /\ OpIs("NetInfo")
    /\ wire.sent
    /\ method_name = "Forest.NetInfo"

(***************************************************************************)
(* C19: in every operation each argument is encoded by the rule of its     *)
(* declared type (json.dumps for int, float, str, bool and Any,            *)
(* model_dump_json for a model class) and the result is decoded by the     *)
(* rule of the declared result (model_validate_json for a model class,     *)
(* json.loads for a primitive, Any or None).                               *)
(***************************************************************************)
C19_RulesMatchDeclaredTypes ==
    (op # NoOp /\ pc # "idle")
    => LET e == Catalog[op]
       IN  /\ Len(params) = Len(e.params)
           /\ \A i \in 1..Len(e.params) :
                LET type == e.args[e.params[i].arg]
                    a == args[e.params[i].arg]
                IN  /\ e.params[i].enc = DeclaredEncoding(type)
                    /\ params[i] = IF type \in PlainTypes THEN Dumps(a)
                                   ELSE ModelDumpJson(a)
           /\ e.dec = DeclaredDecoding(e.ret)
           /\ (pc = "done" /\ op_outcome.kind = "return") =>
                IF e.ret \in PlainTypes \cup {"None"}
                THEN op_outcome.value = Loads(call_outcome.text).v
                ELSE /\ op_outcome.value.t = "model"
                     /\ op_outcome.value.type = e.ret

\* GasEstimateMessageGas(msg, spec, tsk), a model, an Any and a model in,
\* a model out, has returned
C19_Witness ==
    /\ pc = "done"
    /\ OpIs("GasEstimateMessageGas")
    /\ op_outcome.kind = "return"

(***************************************************************************)
(* C20: when some parameter text is not valid JSON the call fails and      *)
(* requests.post is never called, so nothing is sent; a request that is    *)
(* sent holds a params entry for every parameter text.                     *)
(***************************************************************************)
C20_NothingSentUnlessAllParse ==
    /\ (pc # "idle" /\ ~AllParamsParse)
         => /\ ~wire.sent
            /\ posts = 0
            /\ post_calls = 0
            /\ "post" \notin steps
            /\ pc \in {"called", "call_done"}
            /\ pc = "call_done" =>
                 (call_outcome.kind = "raise" /\ call_outcome.exc = "JSONDecodeError")
    /\ wire.sent => Len(DictGet(Loads(wire.body).v, "params").items) = Len(params)

\* the second of two parameter texts did not parse, after a first that did
C20_Witness ==
    /\ pc = "call_done"
    /\ Len(params) = 2
    /\ Loads(params[1]).ok
    /\ ~Loads(params[2]).ok
    /\ call_outcome.kind = "raise"

(***************************************************************************)
(* Concurrent use of one HttpClient. call keeps method_name, params, req,  *)
(* http_resp and json_resp in its own frame (lines 250-264) and reads      *)
(* self.url and self.token; it writes no attribute of self. Every caller   *)
(* is a thread with a frame of its own, and the steps of the frames        *)
(* interleave in any order.                                                *)
(***************************************************************************)
seqvars ==
    <<pc, op, args, method_name, params, wire, posts, http_resp, steps, call_outcome,
      op_outcome, transport_calls, post_calls, repr_text, script>>

ThreadParamLists ==
    {<<>>, <<Dumps(PyStr("f01234"))>>, <<<<Junk("f01234")>>>>}

ThreadResponses ==
    {[status |-> 200, body |-> Dumps(PyDict(<<"result">>, <<Tipset>>))],
     [status |-> 200, body |-> Dumps(PyDict(<<"error">>, <<MethodNotFound>>))],
     [status |-> 500, body |-> <<>>]}

\* faulty variant: the envelope is kept on the client object, where the
\* caller that entered last has overwritten it
ThreadRequestShared(t) ==
    LET others == {u \in Threads \ {t} : threads[u].pc # "idle"}
        u == IF others = {} THEN t ELSE CHOOSE x \in others : TRUE
    IN  BuildRequest(threads[u].method_name, threads[u].params)

\* lines 252-257 in the frame of thread t
ThreadRequest(t) ==
    BuildRequest(threads[t].method_name, threads[t].params)

\* line 250: thread t enters call
ThreadCall(t, m, ps) ==
    /\ threads[t].pc = "idle"
    /\ threads' = [threads EXCEPT ![t] =
                     [@ EXCEPT !.pc = "called", !.method_name = m, !.params = ps]]
    /\ UNCHANGED <<url, token>>
    /\ UNCHANGED seqvars

\* lines 252-258 in thread t
ThreadSend(t) ==
    /\ threads[t].pc = "called"
    /\ LET b == ThreadRequest(t)
           a == PrepareAuth(AuthArgument(token))
       IN  IF ~b.ok
           THEN threads' = [threads EXCEPT ![t] =
                   [@ EXCEPT !.pc = "call_done",
                             !.call_outcome = Raise("JSONDecodeError", PyNone)]]
           ELSE IF ~a.ok
           THEN threads' = [threads EXCEPT ![t] =
                   [@ EXCEPT !.pc = "call_done",
                             !.call_outcome = Raise("TypeError", PyNone)]]
           ELSE \/ threads' = [threads EXCEPT ![t] =
                      [@ EXCEPT !.pc = "call_done",
                                !.call_outcome = Raise("ConnectionError", PyNone)]]
                \/ threads' = [threads EXCEPT ![t] =
                      [@ EXCEPT !.pc = "in_flight",
                                !.wire = Request(url, Dumps(b.req), a.authorization)]]
    /\ UNCHANGED <<url, token>>
    /\ UNCHANGED seqvars

\* line 258: the response to the request of thread t arrives, or none does
ThreadReceive(t) ==
    /\ threads[t].pc = "in_flight"
    /\ \/ \E r \in ThreadResponses :
            threads' = [threads EXCEPT ![t] =
                          [@ EXCEPT !.pc = "responded", !.http_resp = r]]
       \/ threads' = [threads EXCEPT ![t] =
                        [@ EXCEPT !.pc = "call_done",
                                  !.call_outcome = Raise("ConnectionError", PyNone)]]
    /\ UNCHANGED <<url, token>>
    /\ UNCHANGED seqvars

\* lines 259-264 in thread t
ThreadComplete(t) ==
    /\ threads[t].pc = "responded"
    /\ \E optimized \in BOOLEAN :
         threads' = [threads EXCEPT ![t] =
                       [@ EXCEPT !.pc = "call_done",
                                 !.call_outcome =
                                    CallOnResponse(threads[t].http_resp, optimized).outcome]]
    /\ UNCHANGED <<url, token>>
    /\ UNCHANGED seqvars

\* the frame of thread t is gone; the thread may call again
ThreadReset(t) ==
    /\ threads[t].pc = "call_done"
    /\ threads' = [threads EXCEPT ![t] = IdleThread]
    /\ UNCHANGED <<url, token>>
    /\ UNCHANGED seqvars

NextConc ==
    \/ \E t \in Threads, m \in Methods, ps \in ThreadParamLists : ThreadCall(t, m, ps)
    \/ \E t \in Threads : ThreadSend(t)
    \/ \E t \in Threads : ThreadReceive(t)
    \/ \E t \in Threads : ThreadComplete(t)
    \/ \E t \in Threads : ThreadReset(t)

SpecConc == Init /\ [][NextConc]_vars

(***************************************************************************)
(* C17: under every interleaving of concurrent calls on one HttpClient,    *)
(* the request of each call is the envelope of its own method name and     *)
(* parameters, and the outcome of each call is the one its own parameters  *)
(* and the response to its own request give, whatever the other calls      *)
(* were given, received or raised.                                         *)
(***************************************************************************)
C17_CallsIndependent ==
    \A t \in Threads :
       LET th == threads[t]
           own == BuildRequest(th.method_name, th.params)
       IN  /\ th.wire.sent =>
                /\ own.ok
                /\ th.wire.body = Dumps(own.req)
                /\ th.wire.url = url
           /\ (th.pc = "call_done" /\ th.http_resp # NoResponse) =>
                /\ th.wire.sent
                /\ th.call_outcome \in
                     {CallOnResponse(th.http_resp, o).outcome : o \in BOOLEAN}
           /\ (th.pc = "call_done" /\ th.http_resp = NoResponse) =>
                /\ th.call_outcome.kind = "raise"
                /\ th.call_outcome.exc =
                     IF ~own.ok THEN "JSONDecodeError"
                     ELSE IF token # PyNone THEN "TypeError"
                     ELSE "ConnectionError"
           /\ th.pc \in {"idle", "called"} => ~th.wire.sent

\* while thread 2, with another method and other parameters, holds the
\* status 500 response to its request, thread 1 has returned its own result
C17_Witness ==
    /\ threads[1].pc = "call_done"
    /\ threads[1].call_outcome.kind = "return"
    /\ threads[1].method_name = "Filecoin.ChainHead"
    /\ threads[2].pc = "responded"
    /\ threads[2].http_resp.status = 500
    /\ threads[2].method_name = "Filecoin.WalletBalance"
    /\ threads[2].params # threads[1].params

C22_ReprHidesToken ==
    pc = "repr_done"
    => /\ \A other \in Tokens \ {PyNone} :
            token # PyNone => repr_text = Repr(url, other)
       /\ repr_text \in {"HttpClient(url=" \o url \o ", token=...)",
                         "HttpClient(url=" \o url \o ")"}
       /\ (repr_text = "HttpClient(url=" \o url \o ", token=...)") <=> (token # PyNone)

\* the text of a client with the token abc has been produced
C22_Witness ==
    /\ pc = "repr_done"
    /\ token = PyStr("abc")
    /\ repr_text = "HttpClient(url=http://127.0.0.1:2345/rpc/v1, token=...)"

(***************************************************************************)
(* scripts/serialize_commit.py as a state machine: one run of the script   *)
(* from its arguments to its exit status.                                  *)
(***************************************************************************)
clientvars ==
    <<url, token, pc, op, args, method_name, params, wire, posts, http_resp, steps,
      call_outcome, op_outcome, transport_calls, post_calls, threads, repr_text>>

\* lines 38-56: the script starts with arguments l after its own name. An
\* exception of the loop is caught nowhere: the interpreter prints it and
\* exits with status 1
RunScript(l) ==
    /\ script.pc = "not_run"
    /\ LET argv == <<ScriptName>> \o l
           st == ParseArgs(argv, 1, [ok |-> TRUE, debug |-> FALSE, quiet |-> FALSE])
       IN  script' =
             IF st.ok
             THEN [script EXCEPT !.pc = "parsed", !.argv = argv,
                                 !.module_debug = st.debug, !.module_quiet = st.quiet]
             ELSE [script EXCEPT !.pc = "exited", !.argv = argv,
                                 !.module_debug = st.debug, !.module_quiet = st.quiet,
                                 !.crashed = TRUE, !.out = <<"IndexError">>,
                                 !.exit_status = 1]
    /\ UNCHANGED clientvars

\* lines 62-81: HEAD resolves to a commit, or pygit2 raises
ResolveHead ==
    /\ script.pc = "parsed"
    /\ \/ \E h \in Hashes :
            script' = [script EXCEPT !.pc = "resolved", !.commit_hash = h,
                                     !.commit_hash_short = Slice(h, 0, ShortLen)]
       \/ script' = [script EXCEPT
                       !.pc = "resolved", !.module_rs = 1, !.git_failed = TRUE,
                       !.out = IF script.module_quiet THEN @
                               ELSE @ \o <<"Git Command failed", "Git Exception Message">>]
    /\ UNCHANGED clientvars

\* lines 84-113: the commit file is written when there is a hash; open or
\* toml.dump may raise, the first leaving the file as it was, the second
\* after open has truncated it
WriteCommitFile ==
    /\ script.pc = "resolved"
    /\ LET dbg == IF script.module_debug THEN <<"Forest Commit">> ELSE <<>>
       IN  IF script.commit_hash = <<>>
           THEN script' = [script EXCEPT !.pc = "written"]
           ELSE \/ script' = [script EXCEPT
                       !.pc = "written", !.wrote = TRUE,
                       !.file = TomlDump(script.commit_hash, script.commit_hash_short),
                       !.out = @ \o dbg \o dbg
                                 \o (IF script.module_quiet THEN <<>> ELSE <<"File saved">>)]
                \/ \E f \in {script.file, EmptyFile} :
                     script' = [script EXCEPT
                       !.pc = "written", !.module_rs = 1, !.write_failed = TRUE,
                       !.file = f,
                       !.out = @ \o dbg
                                 \o (IF script.module_quiet THEN <<>>
                                     ELSE <<"Save File failed",
                                            "Commit File Exception Message">>)]
    /\ UNCHANGED clientvars

\* lines 116-120: sys.exit(module_rs)
ExitScript ==
    /\ script.pc = "written"
    /\ script' = [script EXCEPT
                    !.pc = "exited", !.exit_status = script.module_rs,
                    !.out = IF script.module_debug THEN @ \o <<"Script finished">> ELSE @]
    /\ UNCHANGED clientvars

\* the process is gone; the commit file stays as the run left it
ScriptAgain ==
    /\ script.pc = "exited"
    /\ script' = NotRunWith(script.file)
    /\ UNCHANGED clientvars

NextScript ==
    \/ \E l \in ArgLists(MaxArgs) : RunScript(l)
    \/ ResolveHead
    \/ WriteCommitFile
    \/ ExitScript
    \/ ScriptAgain

SpecScript == Init /\ [][NextScript]_vars

(***************************************************************************)
(* C23: the script exits with status 1 exactly when resolving HEAD failed  *)
(* or writing the commit file failed, and with status 0 otherwise; a run   *)
(* writes the commit file only when it has a commit hash, and the file     *)
(* then holds the full hash and, as short, its first 8 characters.         *)
(***************************************************************************)
C23_ExitStatusTellsFailure ==
    script.pc = "exited"
    => /\ script.exit_status = (IF script.git_failed \/ script.write_failed THEN 1 ELSE 0)
       /\ script.wrote =>
            /\ script.commit_hash \in Hashes
            /\ script.file = TomlDump(script.commit_hash,
                                      SubSeq(script.commit_hash, 1, 8))

====
